---------------------------- MODULE Spec2Model ----------------------------
(***************************************************************************)
(* A model of the JSON decoder of src/thirdparty/jansson/load.cpp: the     *)
(* byte stream with its UTF-8 validation and one unit of pushback, the     *)
(* lexer (string, number and keyword scanning), the recursive-descent      *)
(* parser and the error reporter.                                          *)
(*                                                                         *)
(* Bytes are the integers 0..255.  A C `char` is modelled as the signed    *)
(* 8-bit type of the x86 builds (CharToInt), so the value stream_get       *)
(* returns for a byte >= 0x80 is negative, exactly as in the code.         *)
(* Every C function is an operator that takes the mutable world W (the     *)
(* byte source cursor, stream_t, lex_t, json_error_t and the abort marker  *)
(* of a failed assertion) and returns the world after the call.            *)
(***************************************************************************)
EXTENDS Integers, Sequences, FiniteSets, TLC

VARIABLES
    input,      \* the bytes the ByteSource holds (buffer_data_t.data/len)
    flags,      \* the decoding flags given to parse_json
    ndebug,     \* TRUE when the build defines NDEBUG (assert compiled out)
    data,       \* the ByteSource cursor (buffer_data_t.pos) and its call log
    stream,     \* stream_t
    lex,        \* lex_t without its stream: saved_text, token, value
    error,      \* json_error_t
    abort,      \* "none", or the assertion that ended the program
    drv,        \* the caller's position: last call made and what it returned
    pc,         \* the parser's position
    stack,      \* the parser's call stack (containers under construction)
    result      \* what parse_json returned

vars == <<input, flags, ndebug, data, stream, lex, error, abort, drv, pc, stack, result>>

----------------------------------------------------------------------------
(* Program constants *)

STREAM_STATE_OK == 0
STREAM_STATE_EOF == -1
STREAM_STATE_ERROR == -2

TOKEN_INVALID == -1
TOKEN_EOF == 0
TOKEN_STRING == 256
TOKEN_INTEGER == 257
TOKEN_REAL == 258
TOKEN_TRUE == 259
TOKEN_FALSE == 260
TOKEN_NULL == 261

\* <stdio.h>: what a get_func returns at end of input
EOF == -1

----------------------------------------------------------------------------
(* Characters *)

\* the printable ASCII characters from " " (32) to "_" (95), then "a" (97) to "~"
AsciiLow ==
    << " ", "!", "\"", "#", "$", "%", "&", "apostrophe", "(", ")", "*", "+", ",", "-", ".", "/",
       "0", "1", "2", "3", "4", "5", "6", "7", "8", "9", ":", ";", "<", "=", ">", "?",
       "@", "A", "B", "C", "D", "E", "F", "G", "H", "I", "J", "K", "L", "M", "N", "O",
       "P", "Q", "R", "S", "T", "U", "V", "W", "X", "Y", "Z", "[", "\\", "]", "^", "_" >>

AsciiHigh ==
    << "a", "b", "c", "d", "e", "f", "g", "h", "i", "j", "k", "l", "m", "n", "o",
       "p", "q", "r", "s", "t", "u", "v", "w", "x", "y", "z", "{", "|", "}", "~" >>

\* the byte of a character
OrdTable ==
    [ch \in {AsciiLow[i] : i \in 1..Len(AsciiLow)}
            \cup {AsciiHigh[i] : i \in 1..Len(AsciiHigh)} \cup {"\n", "\t", "\r"} |->
        IF ch = "\n" THEN 10
        ELSE IF ch = "\t" THEN 9
        ELSE IF ch = "\r" THEN 13
        ELSE IF \E i \in 1..Len(AsciiLow) : AsciiLow[i] = ch
             THEN 31 + (CHOOSE i \in 1..Len(AsciiLow) : AsciiLow[i] = ch)
             ELSE 96 + (CHOOSE i \in 1..Len(AsciiHigh) : AsciiHigh[i] = ch)]

C(ch) == OrdTable[ch]

\* a tuple of one-character strings as a byte sequence
Bytes(t) == [i \in 1..Len(t) |-> OrdTable[t[i]]]

\* the character literals of the source
CH_TAB == 9
CH_LF == 10
CH_CR == 13
CH_SPACE == 32
CH_QUOTE == 34
CH_PLUS == 43
CH_COMMA == 44
CH_MINUS == 45
CH_DOT == 46
CH_SLASH == 47
CH_0 == 48
CH_9 == 57
CH_COLON == 58
CH_A == 65
CH_E == 69
CH_F == 70
CH_Z == 90
CH_LBRACKET == 91
CH_BACKSLASH == 92
CH_RBRACKET == 93
CH_a == 97
CH_b == 98
CH_e == 101
CH_f == 102
CH_l == 108
CH_n == 110
CH_r == 114
CH_s == 115
CH_t == 116
CH_u == 117
CH_z == 122
CH_LBRACE == 123
CH_RBRACE == 125

\* (int)(char)b for a byte b on a build whose char is signed
CharToInt(b) == IF b >= 128 THEN b - 256 ELSE b

\* (unsigned char)c of an int c
ToByte(c) == c % 256

Min(a, b) == IF a <= b THEN a ELSE b

\* F applied to the value of v: a call, then what the code does with its
\* result.  v is evaluated once, as the call is made once
Bind(v, F(_)) == CHOOSE r \in {F(x) : x \in {v}} : TRUE

l_isupper(c) == CH_A <= c /\ c <= CH_Z
l_islower(c) == CH_a <= c /\ c <= CH_z
l_isalpha(c) == l_isupper(c) \/ l_islower(c)
l_isdigit(c) == CH_0 <= c /\ c <= CH_9
l_isxdigit(c) ==
    l_isdigit(c) \/ CH_A <= c \/ c <= CH_F \/ CH_a <= c \/ c <= CH_f

----------------------------------------------------------------------------
(* utf.h: UTF-8 helpers *)

\* the length of the sequence a lead byte starts, 0 for a byte that starts none
utf8_check_first(byte) ==
    Bind(ToByte(byte), LAMBDA u :
        IF u < 128 THEN 1
        ELSE IF u <= 191 THEN 0          \* 0x80..0xBF: a continuation byte
        ELSE IF u = 192 \/ u = 193 THEN 0 \* 0xC0, 0xC1: overlong 2-byte lead
        ELSE IF u <= 223 THEN 2          \* 0xC2..0xDF
        ELSE IF u <= 239 THEN 3          \* 0xE0..0xEF
        ELSE IF u <= 244 THEN 4          \* 0xF0..0xF4
        ELSE 0)

RECURSIVE utf8_value(_, _, _, _)
\* the code point of buffer[0..size-1] after the lead byte's payload v, or -1
\* when a byte is not a continuation byte
utf8_value(buffer, size, i, v) ==
    IF i >= size THEN v
    ELSE IF buffer[i] < 128 \/ buffer[i] > 191 THEN -1
    ELSE utf8_value(buffer, size, i + 1, v * 64 + (buffer[i] % 64))

\* the payload bits of the lead byte of a sequence of size bytes
utf8_lead(byte, size) ==
    IF size = 2 THEN byte % 32 ELSE IF size = 3 THEN byte % 16 ELSE byte % 8

\* TRUE when buffer[0..size-1] is one well-formed UTF-8 sequence
utf8_check_full(buffer, size) ==
    Bind(utf8_value(buffer, size, 1, utf8_lead(buffer[0], size)), LAMBDA v :
        /\ size \in 2..4
        /\ v >= 0
        /\ v <= 1114111
        /\ ~(55296 <= v /\ v <= 57343)
        /\ ~(size = 2 /\ v < 128)
        /\ ~(size = 3 /\ v < 2048)
        /\ ~(size = 4 /\ v < 65536))

\* the UTF-8 encoding of a code point; <<>> stands for the failure return
utf8_encode(cp) ==
    IF cp < 0 THEN <<>>
    ELSE IF cp < 128 THEN <<cp>>
    ELSE IF cp < 2048 THEN <<192 + (cp \div 64), 128 + (cp % 64)>>
    ELSE IF cp < 65536 THEN
        <<224 + (cp \div 4096), 128 + ((cp \div 64) % 64), 128 + (cp % 64)>>
    ELSE IF cp <= 1114111 THEN
        <<240 + (cp \div 262144), 128 + ((cp \div 4096) % 64),
          128 + ((cp \div 64) % 64), 128 + (cp % 64)>>
    ELSE <<>>

----------------------------------------------------------------------------
(* The world the C functions act on *)

World == [data |-> data, stream |-> stream, lex |-> lex, error |-> error, abort |-> abort]

\* assert(cond): ends the program unless the build defines NDEBUG
assert(W, cond, what) ==
    IF cond \/ ndebug \/ W.abort # "none" THEN W ELSE [W EXCEPT !.abort = what]

----------------------------------------------------------------------------
(* Error reporting *)

\* msg, args, ctx and near make the message; raw and at log the saved text and
\* the stream state the report was made with
NoText ==
    [msg |-> "", args |-> <<>>, ctx |-> "none", near |-> <<>>, raw |-> <<>>,
     at |-> STREAM_STATE_OK]

\* jsonp_error_init; reports and last log the reports made, whatever became
\* of them: how many, and the message of the latest
ErrorInit ==
    [line |-> -1, column |-> -1, position |-> 0, text |-> NoText, reports |-> 0,
     last |-> ""]

\* jsonp_error_set: the first report is kept, a later one changes nothing
jsonp_error_set(err, line, col, pos, text) ==
    IF err.text # NoText THEN [err EXCEPT !.reports = @ + 1, !.last = text.msg]
    ELSE [line |-> line, column |-> col, position |-> pos, text |-> text,
          reports |-> err.reports + 1, last |-> text.msg]

RECURSIVE CStr(_)
\* what "%s" prints of a byte array: the bytes before the first NUL
CStr(s) == IF s = <<>> \/ s[1] = 0 THEN <<>> ELSE <<s[1]>> \o CStr(Tail(s))

\* the text error_set composes: msg, then " near '<saved_text>'" or
\* " near end of file" or nothing
error_text(saved_text, state, msg, args) ==
    IF saved_text # <<>> /\ saved_text[1] # 0 THEN
        [msg |-> msg, args |-> args, ctx |-> "near",
         near |-> CStr(SubSeq(saved_text, 1, Min(20, Len(saved_text)))),
         raw |-> saved_text, at |-> state]
    ELSE IF state = STREAM_STATE_ERROR THEN
        [msg |-> msg, args |-> args, ctx |-> "none", near |-> <<>>,
         raw |-> saved_text, at |-> state]
    ELSE
        [msg |-> msg, args |-> args, ctx |-> "eof", near |-> <<>>,
         raw |-> saved_text, at |-> state]

\* error_set writing the record whether or not it holds a report already
error_set_overwrite(W, msg, args) ==
    [W EXCEPT !.error =
        [line |-> W.stream.line, column |-> W.stream.column,
         position |-> W.stream.position,
         text |-> error_text(W.lex.saved_text, W.stream.state, msg, args),
         reports |-> @.reports + 1, last |-> msg]]

\* error_set(error, lex, msg, ...) with a lex
error_set(W, msg, args) ==
    [W EXCEPT !.error =
        jsonp_error_set(@, W.stream.line, W.stream.column, W.stream.position,
                        error_text(W.lex.saved_text, W.stream.state, msg, args))]

----------------------------------------------------------------------------
(* The ByteSources of json_loadb and json_load_callback *)

\* callback_data_t after memset(&stream_data, 0, sizeof(stream_data)); fed,
\* pulls and zeros log the bytes the user callback has handed over, its
\* invocations and the times it returned 0
CallbackInit == [len |-> 0, pos |-> 0, fed |-> 0, pulls |-> 0, zeros |-> 0]

\* the data of the ByteSource: get is the getter lex_init is given, pos the
\* cursor of buffer_data_t, cb the callback_data_t
DataInit(getter) ==
    [get |-> getter, pos |-> 0, calls |-> 0, eofs |-> 0, cb |-> CallbackInit]

\* buffer_get: one byte, or EOF; calls and eofs log the calls made and the
\* EOFs returned
buffer_get(d) ==
    IF d.pos >= Len(input)
    THEN [d |-> [d EXCEPT !.calls = @ + 1, !.eofs = @ + 1], c |-> EOF]
    ELSE [d |-> [d EXCEPT !.calls = @ + 1, !.pos = @ + 1], c |-> input[d.pos + 1]]

\* the size of the buffer the callback fills (MAX_BUF_LEN, scaled down)
MaxBufLen == 2

\* stream->callback(stream->data, MAX_BUF_LEN, stream->arg) for a user
\* callback that hands the input over in pieces as large as the buffer
\* allows and returns 0 when nothing is left
callback(cb) ==
    Bind(Min(MaxBufLen, Len(input) - cb.fed), LAMBDA n :
        [cb EXCEPT !.pos = 0, !.len = n, !.fed = @ + n, !.pulls = @ + 1,
                   !.zeros = IF n = 0 THEN @ + 1 ELSE @])

\* callback_get: the byte at the cursor of the piece, after asking the user
\* callback for another piece when the cursor is at its end
callback_get(d) ==
    Bind(IF d.cb.pos >= d.cb.len THEN callback(d.cb) ELSE d.cb, LAMBDA cb :
        IF d.cb.pos >= d.cb.len /\ (cb.len = 0 \/ cb.len = -1)
        THEN [d |-> [d EXCEPT !.cb = cb, !.calls = @ + 1, !.eofs = @ + 1],
              c |-> EOF]
        ELSE [d |-> [d EXCEPT !.cb = [cb EXCEPT !.pos = @ + 1], !.calls = @ + 1],
              c |-> input[cb.fed - cb.len + cb.pos + 1]])

\* stream->get(stream->data)
get(d) == IF d.get = "callback_get" THEN callback_get(d) ELSE buffer_get(d)

----------------------------------------------------------------------------
(* stream_t *)

\* stream_init; last_column is not set by it (see Init).  got and misuse log
\* the use of the pushback: got is the byte stream_get returned last while it
\* can still be pushed back, misuse whether stream_unget was ever called
\* otherwise
stream_init(last_column) ==
    [buffer |-> [i \in 0..4 |-> 0], buffer_pos |-> 0, state |-> STREAM_STATE_OK,
     line |-> 1, column |-> 0, last_column |-> last_column, position |-> 0,
     got |-> <<>>, misuse |-> FALSE]

RECURSIVE stream_fill(_, _, _, _)
\* for(i = 1; i < count; i++) stream->buffer[i] = stream->get(stream->data);
\* an EOF (-1) is stored as the char 0xFF
stream_fill(d, buffer, i, count) ==
    IF i >= count THEN [d |-> d, buffer |-> buffer]
    ELSE Bind(get(d), LAMBDA g :
            stream_fill(g.d, [buffer EXCEPT ![i] = ToByte(g.c)], i + 1, count))

\* the counters of stream_get for a delivered c, on the stream s as it was
stream_count(s, c) ==
    IF c = CH_LF THEN
        [s EXCEPT !.buffer_pos = @ + 1, !.position = @ + 1,
                  !.line = @ + 1, !.last_column = s.column, !.column = 0,
                  !.got = <<c>>]
    ELSE IF utf8_check_first(c) # 0 THEN
        [s EXCEPT !.buffer_pos = @ + 1, !.position = @ + 1, !.column = @ + 1,
                  !.got = <<c>>]
    ELSE [s EXCEPT !.buffer_pos = @ + 1, !.position = @ + 1, !.got = <<c>>]

\* stream_deliver counting a column for every byte, not for every character
stream_deliver_bytecol(W) ==
    Bind(CharToInt(W.stream.buffer[W.stream.buffer_pos]), LAMBDA c :
        [w |-> [W EXCEPT !.stream =
                    IF c = CH_LF THEN stream_count(@, c)
                    ELSE [@ EXCEPT !.buffer_pos = @ + 1, !.position = @ + 1,
                                   !.column = @ + 1, !.got = <<c>>]],
         c |-> c])

\* the tail of stream_get: hand out buffer[buffer_pos] and count it
stream_deliver(W) ==
    Bind(CharToInt(W.stream.buffer[W.stream.buffer_pos]), LAMBDA c :
        [w |-> [W EXCEPT !.stream = stream_count(@, c)], c |-> c])

\* the `out:` label of stream_get
stream_fail(W, c) ==
    [w |-> error_set([W EXCEPT !.stream.state = STREAM_STATE_ERROR],
                     "unable to decode byte", <<c>>),
     c |-> STREAM_STATE_ERROR]

\* the continuation bytes of the lead byte c, now in buffer[0]: go is "out"
\* for goto out, "deliver" when the sequence is in the buffer
stream_multibyte(W, c) ==
    Bind(utf8_check_first(c), LAMBDA count :
        IF count = 0 THEN [w |-> W, go |-> "out", c |-> c]
        ELSE Bind(stream_fill(W.data, W.stream.buffer, 1, count), LAMBDA f :
            IF ~utf8_check_full(f.buffer, count)
            THEN [w |-> [W EXCEPT !.data = f.d, !.stream.buffer = f.buffer],
                  go |-> "out", c |-> c]
            ELSE [w |-> [W EXCEPT !.data = f.d,
                                  !.stream.buffer = [f.buffer EXCEPT ![count] = 0]],
                  go |-> "deliver", c |-> c]))

\* the body of if(!stream->buffer[stream->buffer_pos]): go is "eof" for the
\* return at EOF, "out" for goto out, "deliver" when it falls through
stream_pull(W) ==
    Bind(get(W.data), LAMBDA g :
        IF g.c = EOF THEN
            [w |-> [W EXCEPT !.data = g.d, !.stream.state = STREAM_STATE_EOF],
             go |-> "eof", c |-> g.c]
        ELSE IF 128 <= g.c /\ g.c <= 255 THEN
            stream_multibyte([W EXCEPT !.data = g.d, !.stream.buffer[0] = g.c,
                                       !.stream.buffer_pos = 0], g.c)
        ELSE
            [w |-> [W EXCEPT !.data = g.d, !.stream.buffer[0] = g.c,
                             !.stream.buffer[1] = 0, !.stream.buffer_pos = 0],
             go |-> "deliver", c |-> g.c])

\* stream_get once the state is known to be Ok
stream_get_ok(W) ==
    Bind(IF W.stream.buffer[W.stream.buffer_pos] = 0 THEN stream_pull(W)
         ELSE [w |-> W, go |-> "deliver", c |-> 0],
         LAMBDA r :
            IF r.go = "eof" THEN [w |-> r.w, c |-> STREAM_STATE_EOF]
            ELSE IF r.go = "out" THEN stream_fail(r.w, r.c)
            ELSE stream_deliver(r.w))

\* stream_get without the check of the latched state
stream_get_resume(W) == stream_get_ok(W)

stream_get(W) ==
    IF W.stream.state # STREAM_STATE_OK THEN [w |-> W, c |-> W.stream.state]
    ELSE stream_get_ok(W)

\* the counters of stream_unget for the byte c
stream_uncount(s, c) ==
    IF c = CH_LF THEN
        [s EXCEPT !.position = @ - 1, !.line = @ - 1, !.column = s.last_column,
                  !.misuse = @ \/ s.got # <<c>> \/ s.buffer_pos = 0, !.got = <<>>]
    ELSE IF utf8_check_first(c) # 0 THEN
        [s EXCEPT !.position = @ - 1, !.column = @ - 1,
                  !.misuse = @ \/ s.got # <<c>> \/ s.buffer_pos = 0, !.got = <<>>]
    ELSE [s EXCEPT !.position = @ - 1,
                   !.misuse = @ \/ s.got # <<c>> \/ s.buffer_pos = 0, !.got = <<>>]

\* the cursor of stream_unget: buffer_pos-- between its two assertions
stream_unget_cursor(W, c) ==
    IF W.stream.buffer_pos = 0 THEN
        \* assert(stream->buffer_pos > 0) fails; with NDEBUG the size_t
        \* cursor wraps and the next read is out of bounds
        [W EXCEPT !.abort = IF @ # "none" THEN @
                            ELSE IF ndebug THEN "undefined: buffer_pos underflow"
                            ELSE "assert: buffer_pos > 0"]
    ELSE
        assert([W EXCEPT !.stream.buffer_pos = @ - 1],
               CharToInt(W.stream.buffer[W.stream.buffer_pos - 1]) = c,
               "assert: buffer[buffer_pos] == c")

\* stream_unget that does not restore the column saved at the newline
stream_unget_nolastcol(W, c) ==
    IF c = STREAM_STATE_EOF \/ c = STREAM_STATE_ERROR THEN W
    ELSE [W EXCEPT !.stream =
            IF c = CH_LF
            THEN [@ EXCEPT !.position = @ - 1, !.line = @ - 1, !.buffer_pos = @ - 1,
                           !.got = <<>>]
            ELSE [stream_uncount(@, c) EXCEPT !.buffer_pos = @ - 1]]

stream_unget(W, c) ==
    IF c = STREAM_STATE_EOF \/ c = STREAM_STATE_ERROR THEN W
    ELSE stream_unget_cursor([W EXCEPT !.stream = stream_uncount(@, c)], c)

----------------------------------------------------------------------------
(* lex_t: the saved text *)

lex_init ==
    [saved_text |-> <<>>, token |-> TOKEN_INVALID, value |-> [kind |-> "none"],
     overrun |-> FALSE]

lex_get(W) == stream_get(W)

\* strbuffer_append_byte
lex_save(W, c) == [W EXCEPT !.lex.saved_text = Append(@, ToByte(c))]

lex_get_save(W) ==
    Bind(stream_get(W), LAMBDA g :
        IF g.c # STREAM_STATE_EOF /\ g.c # STREAM_STATE_ERROR
        THEN [w |-> lex_save(g.w, g.c), c |-> g.c]
        ELSE g)

lex_unget(W, c) == stream_unget(W, c)

\* d = strbuffer_pop(&lex->saved_text); assert(c == d);
lex_unsave(W, c) ==
    IF W.lex.saved_text = <<>> THEN
        \* strbuffer_pop of an empty buffer returns '\0'
        assert(W, c = 0, "assert: c == d")
    ELSE
        assert([W EXCEPT !.lex.saved_text = SubSeq(@, 1, Len(@) - 1)],
               c = CharToInt(W.lex.saved_text[Len(W.lex.saved_text)]),
               "assert: c == d")

\* lex_unget_unsave that drops the saved byte and leaves the stream as it is
lex_unget_unsave_nounget(W, c) ==
    IF c # STREAM_STATE_EOF /\ c # STREAM_STATE_ERROR
    THEN lex_unsave(W, c)
    ELSE W

lex_unget_unsave(W, c) ==
    IF c # STREAM_STATE_EOF /\ c # STREAM_STATE_ERROR
    THEN lex_unsave(stream_unget(W, c), c)
    ELSE W

RECURSIVE lex_save_cached(_)
lex_save_cached(W) ==
    IF W.stream.buffer[W.stream.buffer_pos] # 0 THEN
        lex_save_cached(
            [lex_save(W, W.stream.buffer[W.stream.buffer_pos])
                EXCEPT !.stream.buffer_pos = @ + 1, !.stream.position = @ + 1,
                       !.stream.got = <<>>])
    ELSE W

----------------------------------------------------------------------------
(* lex_scan_string *)

\* the byte at offset p of the saved text; the strbuffer ends with a NUL
TextAt(st, p) == IF p < Len(st) THEN CharToInt(st[p + 1]) ELSE 0

RECURSIVE lex_scan_hex_three(_, _, _)
\* the validation loop over three bytes in place of four
lex_scan_hex_three(W, c, i) ==
    IF i >= 3 THEN [w |-> W, c |-> c, ok |-> TRUE]
    ELSE IF ~l_isxdigit(c) THEN [w |-> W, c |-> c, ok |-> FALSE]
    ELSE Bind(lex_get_save(W), LAMBDA g : lex_scan_hex_three(g.w, g.c, i + 1))

RECURSIVE lex_scan_hex(_, _, _)
\* for(i = 0; i < 4; i++) { if(!l_isxdigit(c)) fail; c = lex_get_save(); }
lex_scan_hex(W, c, i) ==
    IF i >= 4 THEN [w |-> W, c |-> c, ok |-> TRUE]
    ELSE IF ~l_isxdigit(c) THEN [w |-> W, c |-> c, ok |-> FALSE]
    ELSE Bind(lex_get_save(W), LAMBDA g : lex_scan_hex(g.w, g.c, i + 1))

IsShortEscape(c) ==
    c \in {CH_QUOTE, CH_BACKSLASH, CH_SLASH, CH_b, CH_f, CH_n, CH_r, CH_t}

\* a report followed by goto out
lex_string_error(W, msg, args) ==
    [w |-> error_set(W, msg, args), c |-> 0, ok |-> FALSE]

\* the body of the first loop of lex_scan_string after a backslash
lex_scan_escape(W) ==
    Bind(lex_get_save(W), LAMBDA g :
        IF g.c = CH_u THEN
            Bind(lex_get_save(g.w), LAMBDA h :
                Bind(lex_scan_hex(h.w, h.c, 0), LAMBDA r :
                    IF r.ok THEN r ELSE lex_string_error(r.w, "invalid escape", <<>>)))
        ELSE IF IsShortEscape(g.c) THEN
            Bind(lex_get_save(g.w), LAMBDA h : [w |-> h.w, c |-> h.c, ok |-> TRUE])
        ELSE lex_string_error(g.w, "invalid escape", <<>>))

\* the body of the first loop of lex_scan_string for the byte c: the next
\* byte, or ok = FALSE for goto out
lex_scan_string_char(W, c) ==
    IF c = STREAM_STATE_ERROR THEN [w |-> W, c |-> c, ok |-> FALSE]
    ELSE IF c = STREAM_STATE_EOF THEN
        lex_string_error(W, "premature end of input", <<>>)
    ELSE IF 0 <= c /\ c <= 31 THEN
        IF c = CH_LF
        THEN lex_string_error(lex_unget_unsave(W, c), "unexpected newline", <<>>)
        ELSE lex_string_error(lex_unget_unsave(W, c), "control character", <<c>>)
    ELSE IF c = CH_BACKSLASH THEN lex_scan_escape(W)
    ELSE Bind(lex_get_save(W), LAMBDA g : [w |-> g.w, c |-> g.c, ok |-> TRUE])

RECURSIVE lex_scan_string_validate(_, _)
\* the first loop of lex_scan_string: while(c != '"') { ... }
lex_scan_string_validate(W, c) ==
    IF c = CH_QUOTE THEN [w |-> W, ok |-> TRUE]
    ELSE Bind(lex_scan_string_char(W, c), LAMBDA r :
            IF r.ok THEN lex_scan_string_validate(r.w, r.c)
            ELSE [w |-> r.w, ok |-> FALSE])

\* the value of the hexadecimal digit c; -1 for the assert(0) branch
decode_unicode_digit(c) ==
    IF l_isdigit(c) THEN c - CH_0
    ELSE IF l_islower(c) THEN c - CH_a + 10
    ELSE IF l_isupper(c) THEN c - CH_A + 10
    ELSE -1

RECURSIVE decode_unicode_digits(_, _, _, _)
\* the loop of decode_unicode_escape over str[1..4]; str is offset p of the
\* saved text
decode_unicode_digits(W, p, i, value) ==
    IF i > 4 \/ W.abort # "none" THEN [w |-> W, value |-> value]
    ELSE Bind(decode_unicode_digit(TextAt(W.lex.saved_text, p + i)), LAMBDA d :
            IF d >= 0 THEN decode_unicode_digits(W, p, i + 1, value * 16 + d)
            ELSE decode_unicode_digits(
                    assert(W, FALSE, "assert(0): decode_unicode_escape"),
                    p, i + 1, value * 16))

decode_unicode_escape(W, p) ==
    decode_unicode_digits(
        assert(W, TextAt(W.lex.saved_text, p) = CH_u, "assert: str[0] == 'u'"),
        p, 1, 0)

\* the control character a short escape stands for; -1 for the default: branch
ShortEscapeValue(c) ==
    IF c = CH_QUOTE \/ c = CH_BACKSLASH \/ c = CH_SLASH THEN c
    ELSE IF c = CH_b THEN 8
    ELSE IF c = CH_f THEN 12
    ELSE IF c = CH_n THEN 10
    ELSE IF c = CH_r THEN 13
    ELSE IF c = CH_t THEN 9
    ELSE -1

\* lex_scan_string leaving through `out:`: TOKEN_INVALID, the string freed
lex_string_fail(W) == [W EXCEPT !.lex.value = [kind |-> "freed"]]

\* 0xD800 <= value && value <= 0xDBFF
IsHighSurrogate(value) == 55296 <= value /\ value <= 56319

\* the low surrogate range without its last value
IsLowSurrogate_short(value) == 56320 <= value /\ value < 57343

\* 0xDC00 <= value && value <= 0xDFFF
IsLowSurrogate(value) == 56320 <= value /\ value <= 57343

\* the surrogate pair arithmetic without the 0x10000 offset
surrogate_pair_nobase(value, value2) ==
    ((value - 55296) * 1024) + (value2 - 56320)

\* value = ((value - 0xD800) << 10) + (value2 - 0xDC00) + 0x10000
surrogate_pair(value, value2) ==
    ((value - 55296) * 1024) + (value2 - 56320) + 65536

\* what the second loop does with one \uXXXX escape at offset p (and the one
\* that follows it): go is "out" for goto out, "abort" when an assertion
\* ended the program, "on" with the code point and the offset after it; hi is
\* the highest offset of the saved text it read
lex_decode_unicode(W, p) ==
    Bind(decode_unicode_escape(W, p + 1), LAMBDA d :
        IF d.w.abort # "none"
        THEN [w |-> d.w, go |-> "abort", value |-> 0, p |-> p, hi |-> p + 5]
        ELSE IF IsHighSurrogate(d.value) THEN
            IF TextAt(W.lex.saved_text, p + 6) = CH_BACKSLASH
                /\ TextAt(W.lex.saved_text, p + 7) = CH_u
            THEN
                Bind(decode_unicode_escape(d.w, p + 7), LAMBDA d2 :
                    IF d2.w.abort # "none"
                    THEN [w |-> d2.w, go |-> "abort", value |-> 0, p |-> p,
                          hi |-> p + 11]
                    ELSE IF IsLowSurrogate(d2.value)
                    THEN [w |-> d2.w, go |-> "on",
                          value |-> surrogate_pair(d.value, d2.value), p |-> p + 12,
                          hi |-> p + 11]
                    ELSE [w |-> error_set(d2.w, "invalid Unicode", <<d.value, d2.value>>),
                          go |-> "out", value |-> 0, p |-> p, hi |-> p + 11])
            ELSE [w |-> error_set(d.w, "invalid Unicode", <<d.value>>),
                  go |-> "out", value |-> 0, p |-> p,
                  hi |-> IF TextAt(W.lex.saved_text, p + 6) = CH_BACKSLASH
                         THEN p + 7 ELSE p + 6]
        ELSE IF IsLowSurrogate(d.value) THEN
            [w |-> error_set(d.w, "invalid Unicode", <<d.value>>),
             go |-> "out", value |-> 0, p |-> p, hi |-> p + 5]
        ELSE IF d.value = 0 THEN
            [w |-> error_set(d.w, "\\u0000 is not allowed", <<>>),
             go |-> "out", value |-> 0, p |-> p, hi |-> p + 5]
        ELSE [w |-> d.w, go |-> "on", value |-> d.value, p |-> p + 6, hi |-> p + 5])

\* the buffer of the second loop: jsonp_malloc(saved_text.length + 1) bytes to
\* write, the saved text up to its closing quote to read.  lex.overrun records
\* that the loop read the offset hi beyond the closing quote, that the wrote
\* bytes of one step are more than the occupied bytes it stands for, or that
\* the bytes t written so far and one more do not fit the buffer
lex_string_bound(W, hi, t, wrote, occupied) ==
    [W EXCEPT !.lex.overrun = @ \/ hi >= Len(W.lex.saved_text)
                                \/ wrote > occupied
                                \/ Len(t) + 1 > Len(W.lex.saved_text) + 1]

\* *p with p beyond the terminator of the saved text is a read outside the
\* strbuffer: the program has no defined behaviour from there on
lex_string_undefined(W) ==
    [W EXCEPT !.abort = "undefined: read past the saved text",
              !.lex.overrun = TRUE]

RECURSIVE lex_scan_string_decode(_, _, _)
\* the second loop of lex_scan_string: p is the read offset in the saved text,
\* t the bytes written to lex->value.string so far
lex_scan_string_decode(W, p, t) ==
    IF W.abort # "none" THEN W
    ELSE IF p > Len(W.lex.saved_text) THEN lex_string_undefined(W)
    ELSE IF TextAt(W.lex.saved_text, p) = CH_QUOTE THEN
        [lex_string_bound(W, p, t, 1, 1)
            EXCEPT !.lex.value = [kind |-> "string", s |-> t],
                   !.lex.token = TOKEN_STRING]
    ELSE IF TextAt(W.lex.saved_text, p) = CH_BACKSLASH THEN
        IF TextAt(W.lex.saved_text, p + 1) = CH_u THEN
            Bind(lex_decode_unicode(W, p), LAMBDA u :
                IF u.go = "abort" THEN lex_string_bound(u.w, u.hi, t, 0, 0)
                ELSE IF u.go = "out"
                THEN lex_string_fail(lex_string_bound(u.w, u.hi, t, 0, 0))
                ELSE Bind(utf8_encode(u.value), LAMBDA enc :
                        IF enc = <<>> THEN assert(u.w, FALSE, "assert(0): utf8_encode")
                        ELSE lex_scan_string_decode(
                                lex_string_bound(u.w, u.hi, t \o enc,
                                                 Len(enc), u.p - p),
                                u.p, t \o enc)))
        ELSE
            Bind(ShortEscapeValue(TextAt(W.lex.saved_text, p + 1)), LAMBDA e :
                lex_scan_string_decode(
                    lex_string_bound(assert(W, e # -1, "assert(0): escape"),
                                     p + 1, Append(t, ToByte(e)), 1, 2),
                    p + 2, Append(t, ToByte(e))))
    ELSE lex_scan_string_decode(
            lex_string_bound(W, p, Append(t, ToByte(TextAt(W.lex.saved_text, p))),
                             1, 1),
            p + 1, Append(t, ToByte(TextAt(W.lex.saved_text, p))))

\* jsonp_malloc is taken to succeed
lex_scan_string(W) ==
    Bind(lex_get_save([W EXCEPT !.lex.value = [kind |-> "none"],
                                !.lex.token = TOKEN_INVALID]),
         LAMBDA g :
            Bind(lex_scan_string_validate(g.w, g.c), LAMBDA v :
                IF ~v.ok THEN lex_string_fail(v.w)
                ELSE lex_scan_string_decode(v.w, 1, <<>>)))

----------------------------------------------------------------------------
(* lex_scan_number *)

RECURSIVE lex_get_digits(_)
\* c = lex_get_save(lex, error); while(l_isdigit(c)) c = lex_get_save(lex, error);
lex_get_digits(W) ==
    Bind(lex_get_save(W), LAMBDA g : IF l_isdigit(g.c) THEN lex_get_digits(g.w) ELSE g)

RECURSIVE StripZeros(_)
\* a digit string without its leading zeros
StripZeros(ds) == IF ds # <<>> /\ ds[1] = CH_0 THEN StripZeros(Tail(ds)) ELSE ds

RECURSIVE DigitsLess(_, _)
\* a < b for two digit strings of the same length
DigitsLess(a, b) ==
    IF a = <<>> THEN FALSE
    ELSE IF a[1] # b[1] THEN a[1] < b[1]
    ELSE DigitsLess(Tail(a), Tail(b))

\* a <= b for two digit strings without leading zeros
MagnitudeLeq(a, b) ==
    Len(a) < Len(b) \/ (Len(a) = Len(b) /\ ~DigitsLess(b, a))

\* the characters of a tuple of decimal digits
Digits(t) == [i \in 1..Len(t) |-> CH_0 + t[i]]

\* 2^63 - 1 and 2^63: the largest magnitudes of a json_int_t (long long)
LLONG_MAX_DIGITS == Digits(<<9, 2, 2, 3, 3, 7, 2, 0, 3, 6, 8, 5, 4, 7, 7, 5, 8, 0, 7>>)
LLONG_MIN_DIGITS == Digits(<<9, 2, 2, 3, 3, 7, 2, 0, 3, 6, 8, 5, 4, 7, 7, 5, 8, 0, 8>>)

\* strtoll of the magnitude mag after the sign neg
strtoll(neg, mag) ==
    IF ~MagnitudeLeq(mag, IF neg THEN LLONG_MIN_DIGITS ELSE LLONG_MAX_DIGITS)
    THEN [erange |-> TRUE, negative |-> neg,
          digits |-> IF neg THEN LLONG_MIN_DIGITS ELSE LLONG_MAX_DIGITS]
    ELSE [erange |-> FALSE, negative |-> neg /\ mag # <<>>, digits |-> mag]

\* strtoll(saved_text, &end, 10) of a text -?digits: the value as sign and
\* magnitude, and whether errno is ERANGE (the value is then LLONG_MIN/MAX)
json_strtoint(text) ==
    IF text # <<>> /\ text[1] = CH_MINUS
    THEN strtoll(TRUE, StripZeros(Tail(text)))
    ELSE strtoll(FALSE, StripZeros(text))

\* the index of the first byte of s in set, Len(s) + 1 when there is none
FirstIn(s, set) ==
    IF \E i \in DOMAIN s : s[i] \in set
    THEN CHOOSE i \in DOMAIN s : s[i] \in set /\ \A j \in 1..(i - 1) : s[j] \notin set
    ELSE Len(s) + 1

RECURSIVE DigitsValue(_, _)
\* the value of a digit string, capped so that it stays a small integer
DigitsValue(ds, acc) ==
    IF ds = <<>> THEN acc
    ELSE IF acc >= 100000 THEN 1000000
    ELSE DigitsValue(Tail(ds), acc * 10 + (ds[1] - CH_0))

\* the first digits of 2^1024 - 2^970, the least magnitude that rounds to infinity
DBL_OVERFLOW_DIGITS == Digits(<<1, 7, 9, 7, 6, 9, 3, 1, 3, 4, 8, 6, 2, 3, 1, 5, 8, 0, 8>>)

RECURSIVE PadRight(_, _)
PadRight(ds, n) == IF Len(ds) >= n THEN ds ELSE PadRight(Append(ds, CH_0), n)

\* the value of the exponent text [+-]digits
strtod_exponent(expo) ==
    IF expo # <<>> /\ expo[1] = CH_MINUS THEN 0 - DigitsValue(Tail(expo), 0)
    ELSE IF expo # <<>> /\ expo[1] = CH_PLUS THEN DigitsValue(Tail(expo), 0)
    ELSE DigitsValue(expo, 0)

\* 0.sig * 10^k is at least the overflow threshold 0.1797...e309
strtod_huge(sig, k) ==
    /\ sig # <<>>
    /\ \/ k > 309
       \/ /\ k = 309
          /\ ~DigitsLess(PadRight(sig, Len(DBL_OVERFLOW_DIGITS)),
                         PadRight(DBL_OVERFLOW_DIGITS, Len(sig)))

\* the magnitude ipart.fpart * 10^e overflows
strtod_magnitude(ipart, fpart, e) ==
    Bind(StripZeros(ipart \o fpart), LAMBDA sig :
        strtod_huge(sig, Len(sig) - Len(fpart) + e))

\* the magnitude mant * 10^e overflows
strtod_mantissa(mant, e) ==
    Bind(FirstIn(mant, {CH_DOT}), LAMBDA dpos :
        strtod_magnitude(SubSeq(mant, 1, dpos - 1), SubSeq(mant, dpos + 1, Len(mant)), e))

\* the magnitude int[.frac][(e|E)[+-]exp] overflows
strtod_unsigned(body) ==
    Bind(FirstIn(body, {CH_e, CH_E}), LAMBDA epos :
        strtod_mantissa(SubSeq(body, 1, epos - 1),
                        strtod_exponent(SubSeq(body, epos + 1, Len(body)))))

\* jsonp_strtod(strbuffer, &out) # 0: strtod of the text overflows to +-HUGE_VAL.
\* The text is -?int[.frac][(e|E)[+-]exp]; its magnitude is 0.m * 10^k with m
\* the significant digits, compared with the overflow threshold 0.1797...e309.
jsonp_strtod_overflows(text) ==
    IF text # <<>> /\ text[1] = CH_MINUS THEN strtod_unsigned(Tail(text))
    ELSE strtod_unsigned(text)

\* the integer part of lex_scan_number without the rule that nothing but '.',
\* 'e' or 'E' follows a leading 0
lex_number_int_zeros(W, c) ==
    IF l_isdigit(c) THEN
        Bind(lex_get_digits(W), LAMBDA g : [w |-> g.w, c |-> g.c, out |-> FALSE])
    ELSE [w |-> lex_unget_unsave(W, c), c |-> c, out |-> TRUE]

\* the integer part of lex_scan_number, after the sign: the lookahead, or
\* out = TRUE for goto out
lex_number_int(W, c) ==
    IF c = CH_0 THEN
        Bind(lex_get_save(W), LAMBDA g :
            IF l_isdigit(g.c)
            THEN [w |-> lex_unget_unsave(g.w, g.c), c |-> g.c, out |-> TRUE]
            ELSE [w |-> g.w, c |-> g.c, out |-> FALSE])
    ELSE IF l_isdigit(c) THEN
        Bind(lex_get_digits(W), LAMBDA g : [w |-> g.w, c |-> g.c, out |-> FALSE])
    ELSE [w |-> lex_unget_unsave(W, c), c |-> c, out |-> TRUE]

\* the integer conversion of lex_scan_number without the test of errno: the
\* value strtoll clamped becomes the token's value
lex_number_integer_norange(W) ==
    Bind(json_strtoint(W.lex.saved_text), LAMBDA v :
        [w |-> [W EXCEPT !.lex.token = TOKEN_INTEGER,
                         !.lex.value = [kind |-> "integer",
                                        negative |-> v.negative,
                                        digits |-> v.digits]],
         ret |-> 0])

\* lex_scan_number from `if(c != '.' && c != 'E' && c != 'e')`: the integer
\* conversion, the pushback of the lookahead done
lex_number_integer(W) ==
    Bind(json_strtoint(W.lex.saved_text), LAMBDA v :
        IF v.erange THEN
            [w |-> error_set(W, IF v.negative THEN "too big negative integer"
                                ELSE "too big integer", <<>>),
             ret |-> -1]
        ELSE
            [w |-> [W EXCEPT !.lex.token = TOKEN_INTEGER,
                             !.lex.value = [kind |-> "integer",
                                            negative |-> v.negative,
                                            digits |-> v.digits]],
             ret |-> 0])

\* the fraction of lex_scan_number pushing the byte after the '.' back twice
lex_number_fraction_twice(W, c) ==
    IF c = CH_DOT THEN
        Bind(lex_get(W), LAMBDA g :
            IF ~l_isdigit(g.c)
            THEN [w |-> lex_unget(lex_unget(g.w, g.c), g.c), c |-> g.c, out |-> TRUE]
            ELSE Bind(lex_get_digits(lex_save(g.w, g.c)), LAMBDA r :
                    [w |-> r.w, c |-> r.c, out |-> FALSE]))
    ELSE [w |-> W, c |-> c, out |-> FALSE]

\* lex_scan_number from `if(c == '.')` on: the lookahead after the fraction
lex_number_fraction(W, c) ==
    IF c = CH_DOT THEN
        Bind(lex_get(W), LAMBDA g :
            IF ~l_isdigit(g.c) THEN [w |-> lex_unget(g.w, g.c), c |-> g.c, out |-> TRUE]
            ELSE Bind(lex_get_digits(lex_save(g.w, g.c)), LAMBDA r :
                    [w |-> r.w, c |-> r.c, out |-> FALSE]))
    ELSE [w |-> W, c |-> c, out |-> FALSE]

\* the exponent after its marker and optional sign, c its first byte
lex_number_exponent_digits(W, c) ==
    IF ~l_isdigit(c) THEN [w |-> lex_unget_unsave(W, c), c |-> c, out |-> TRUE]
    ELSE Bind(lex_get_digits(W), LAMBDA r : [w |-> r.w, c |-> r.c, out |-> FALSE])

\* lex_scan_number from `if(c == 'E' || c == 'e')` on: the lookahead after
\* the exponent
lex_number_exponent(W, c) ==
    IF c = CH_E \/ c = CH_e THEN
        Bind(lex_get_save(W), LAMBDA g :
            IF g.c = CH_PLUS \/ g.c = CH_MINUS
            THEN Bind(lex_get_save(g.w), LAMBDA h : lex_number_exponent_digits(h.w, h.c))
            ELSE lex_number_exponent_digits(g.w, g.c))
    ELSE [w |-> W, c |-> c, out |-> FALSE]

\* lex_scan_number from `double value;` on: the pushback of the lookahead is done
lex_number_real(W) ==
    IF jsonp_strtod_overflows(W.lex.saved_text) THEN
        [w |-> error_set(W, "real number overflow", <<>>), ret |-> -1]
    ELSE
        [w |-> [W EXCEPT !.lex.token = TOKEN_REAL,
                         !.lex.value = [kind |-> "real", text |-> W.lex.saved_text]],
         ret |-> 0]

\* lex_scan_number once the integer part is read, c the lookahead
lex_number_tail(W, c) ==
    IF c # CH_DOT /\ c # CH_E /\ c # CH_e THEN lex_number_integer(lex_unget_unsave(W, c))
    ELSE
        Bind(lex_number_fraction(W, c), LAMBDA f :
            IF f.out THEN [w |-> f.w, ret |-> -1]
            ELSE Bind(lex_number_exponent(f.w, f.c), LAMBDA e :
                    IF e.out THEN [w |-> e.w, ret |-> -1]
                    ELSE lex_number_real(lex_unget_unsave(e.w, e.c))))

lex_scan_number(W, c) ==
    Bind(IF c = CH_MINUS THEN lex_get_save([W EXCEPT !.lex.token = TOKEN_INVALID])
         ELSE [w |-> [W EXCEPT !.lex.token = TOKEN_INVALID], c |-> c],
         LAMBDA s :
            Bind(lex_number_int(s.w, s.c), LAMBDA a :
                IF a.out THEN [w |-> a.w, ret |-> -1]
                ELSE lex_number_tail(a.w, a.c)))

----------------------------------------------------------------------------
(* lex_scan *)

IsSpace(c) == c = CH_SPACE \/ c = CH_TAB \/ c = CH_LF \/ c = CH_CR

RECURSIVE lex_skip_space(_)
\* c = lex_get(); while(c is white space) c = lex_get();
lex_skip_space(W) ==
    Bind(lex_get(W), LAMBDA g : IF IsSpace(g.c) THEN lex_skip_space(g.w) ELSE g)

RECURSIVE lex_get_alpha(_)
\* c = lex_get_save(lex, error); while(l_isalpha(c)) c = lex_get_save(lex, error);
lex_get_alpha(W) ==
    Bind(lex_get_save(W), LAMBDA g : IF l_isalpha(g.c) THEN lex_get_alpha(g.w) ELSE g)

IsPunct(c) ==
    c \in {CH_LBRACE, CH_RBRACE, CH_LBRACKET, CH_RBRACKET, CH_COLON, CH_COMMA}

\* the token for the identifier text (strcmp against true, false, null)
KeywordToken(text) ==
    Bind(CStr(text), LAMBDA s :
        IF s = <<CH_t, CH_r, CH_u, CH_e>> THEN TOKEN_TRUE
        ELSE IF s = <<CH_f, CH_a, CH_l, CH_s, CH_e>> THEN TOKEN_FALSE
        ELSE IF s = <<CH_n, CH_u, CH_l, CH_l>> THEN TOKEN_NULL
        ELSE TOKEN_INVALID)

\* the identifier branch of lex_scan
lex_scan_keyword(W) ==
    Bind(lex_get_alpha(W), LAMBDA r :
        Bind(lex_unget_unsave(r.w, r.c), LAMBDA W2 :
            [W2 EXCEPT !.lex.token = KeywordToken(W2.lex.saved_text)]))

\* lex_scan from lex_save(lex, c) on
lex_scan_token(W, c) ==
    IF IsPunct(c) THEN [W EXCEPT !.lex.token = c]
    ELSE IF c = CH_QUOTE THEN lex_scan_string(W)
    ELSE IF l_isdigit(c) \/ c = CH_MINUS THEN lex_scan_number(W, c).w
    ELSE IF l_isalpha(c) THEN lex_scan_keyword(W)
    ELSE [lex_save_cached(W) EXCEPT !.lex.token = TOKEN_INVALID]

\* lex_scan: the world after it; its return value is lex.token
lex_scan(W) ==
    Bind(lex_skip_space([W EXCEPT !.lex.saved_text = <<>>,
                                  !.lex.value = IF W.lex.token = TOKEN_STRING
                                                THEN [kind |-> "none"] ELSE @]),
         LAMBDA g :
            IF g.c = STREAM_STATE_EOF THEN [g.w EXCEPT !.lex.token = TOKEN_EOF]
            ELSE IF g.c = STREAM_STATE_ERROR THEN [g.w EXCEPT !.lex.token = TOKEN_INVALID]
            ELSE lex_scan_token(lex_save(g.w, g.c), g.c))

----------------------------------------------------------------------------
(* Shared initial state *)

\* what an int that stream_init leaves unset may hold
UninitInts == {0, 7}

IsByte(c) == c # STREAM_STATE_EOF /\ c # STREAM_STATE_ERROR

\* what a json_ref holds before anything was returned into it, and nullptr
Pending == [t |-> "pending"]
nullptr == [t |-> "nullptr"]

DrvInit == [op |-> "none", c |-> 0, pre |-> stream_init(0), precalls |-> 0,
            delivered |-> <<>>, reget |-> FALSE, ungotc |-> 0, scans |-> 0,
            ret |-> Pending]

InitWith(inputs, flagsets, where, getters) ==
    /\ input \in inputs
    /\ flags \in flagsets
    /\ ndebug \in BOOLEAN
    /\ \E getter \in getters : data = DataInit(getter)
    /\ \E lc \in UninitInts : stream = stream_init(lc)
    /\ lex = lex_init
    /\ error = ErrorInit
    /\ abort = "none"
    /\ drv = DrvInit
    /\ pc = where
    /\ stack = <<>>
    /\ result = Pending

\* the world after a call becomes the state
Becomes(W) ==
    /\ data' = W.data
    /\ stream' = W.stream
    /\ lex' = W.lex
    /\ error' = W.error
    /\ abort' = W.abort

----------------------------------------------------------------------------
(* SpecStream: a caller that pulls bytes, pushes the last one back and drains *)
(* the buffered character, as lex_scan and its scanners do                    *)

MaxStreamChars == 3

\* one character, well-formed or not, as the bytes a source may hold
StreamChunks ==
    { <<0>>, <<10>>, <<97>>,
      <<195, 169>>,              \* U+00E9
      <<226, 130, 172>>,         \* U+20AC
      <<240, 159, 152, 128>>,    \* U+1F600
      <<255>>,                   \* never a lead byte
      <<128>>,                   \* a continuation byte with no lead
      <<195>>,                   \* a lead byte whose continuation is missing
      <<226, 130>>,
      <<240>> }                  \* a lead byte with three continuations missing

RECURSIVE ChunkSeqs(_, _)
\* the concatenations of at most n chunks
ChunkSeqs(chunks, n) ==
    IF n = 0 THEN {<<>>}
    ELSE LET P == ChunkSeqs(chunks, n - 1) IN
         P \cup {p \o c : p \in P, c \in chunks}

StreamInputs == ChunkSeqs(StreamChunks, MaxStreamChars)

\* the inputs read through the callback adapter: one character fewer
CallbackInputs == ChunkSeqs(StreamChunks, MaxStreamChars - 1)

StreamInit ==
    \/ InitWith(StreamInputs, {{}}, "stream", {"buffer_get"})
    \/ InitWith(CallbackInputs, {{}}, "stream", {"callback_get"})

\* c = stream_get(stream, error)
StreamGet ==
    /\ pc = "stream"
    /\ abort = "none"
    /\ LET g == stream_get(World) IN
       /\ Becomes(g.w)
       /\ drv' = [op |-> "get", c |-> g.c, pre |-> stream, precalls |-> data.calls,
                  delivered |-> IF IsByte(g.c) THEN Append(drv.delivered, ToByte(g.c))
                                ELSE drv.delivered,
                  reget |-> (drv.op = "unget"), ungotc |-> drv.c, scans |-> 0]
    /\ UNCHANGED <<input, flags, ndebug, pc, stack, result>>

\* stream_unget(stream, c) with the value the last stream_get returned
StreamUnget ==
    /\ pc = "stream"
    /\ abort = "none"
    /\ drv.op = "get"
    /\ Becomes(stream_unget(World, drv.c))
    /\ drv' = [drv EXCEPT !.op = "unget",
                          !.delivered = IF IsByte(drv.c)
                                        THEN SubSeq(@, 1, Len(@) - 1) ELSE @]
    /\ UNCHANGED <<input, flags, ndebug, pc, stack, result>>

\* lex_save_cached(lex) after the first byte of a character was pulled and saved
LexSaveCached ==
    /\ pc = "stream"
    /\ abort = "none"
    /\ drv.op = "get"
    /\ IsByte(drv.c)
    /\ stream.buffer_pos = 1
    /\ LET W == lex_save_cached(World) IN
       /\ Becomes(W)
       /\ drv' = [drv EXCEPT !.op = "save",
                             !.delivered = @ \o SubSeq(W.lex.saved_text,
                                                       Len(lex.saved_text) + 1,
                                                       Len(W.lex.saved_text))]
    /\ UNCHANGED <<input, flags, ndebug, pc, stack, result>>

StreamNext == StreamGet \/ StreamUnget \/ LexSaveCached

SpecStream == StreamInit /\ [][StreamNext]_vars

(* SpecLex: a caller that scans token after token with lex_scan until the    *)
(* END or INVALID token, over number and string literals                     *)

MaxNumLen == 4

\* every text of at most MaxNumLen bytes over the bytes a number is made of
NumAlphabet == {C("-"), C("+"), C("."), C("0"), C("1"), C("9"), C("e"), C("E")}

ShortNumberInputs == ChunkSeqs({<<c>> : c \in NumAlphabet}, MaxNumLen)

\* sign, integer part, fraction, exponent and what follows, well-formed or not
NumSigns == {<<>>, Bytes(<<"-">>)}
NumInts == {<<>>, Bytes(<<"0">>), Bytes(<<"1">>), Bytes(<<"1","0">>),
            Bytes(<<"0","1">>), Bytes(<<"0","0">>), Bytes(<<"9","1","9">>)}
NumFracs == {<<>>, Bytes(<<".">>), Bytes(<<".","0">>), Bytes(<<".","1","5">>)}
NumExps == {<<>>, Bytes(<<"e">>), Bytes(<<"e","1">>), Bytes(<<"E","+","1">>),
            Bytes(<<"e","-">>), Bytes(<<"e","-","1","0">>), Bytes(<<"E","+">>),
            Bytes(<<"e","3","0","8">>), Bytes(<<"e","9","9","9">>)}
NumTails == {<<>>, Bytes(<<" ">>), Bytes(<<",">>), <<0>>, <<255>>}

LongNumberInputs ==
    {s \o i \o f \o e \o t :
        s \in NumSigns, i \in NumInts, f \in NumFracs, e \in NumExps, t \in NumTails}

\* literals around the limits of long long and of double
RangeNumberInputs ==
    { Bytes(<<"9","2","2","3","3","7","2","0","3","6","8","5","4","7","7","5","8","0","7">>),
      Bytes(<<"9","2","2","3","3","7","2","0","3","6","8","5","4","7","7","5","8","0","8">>),
      Bytes(<<"-","9","2","2","3","3","7","2","0","3","6","8","5","4","7","7","5","8","0","8">>),
      Bytes(<<"-","9","2","2","3","3","7","2","0","3","6","8","5","4","7","7","5","8","0","9">>),
      Bytes(<<"1","0","0","0","0","0","0","0","0","0","0","0","0","0","0","0","0","0","0","0">>),
      Bytes(<<"1",".","7","9","e","3","0","8">>),
      Bytes(<<"1",".","8","e","3","0","8">>),
      Bytes(<<"0",".","0","1","e","3","1","1">>),
      Bytes(<<"0","e","9","9","9">>),
      Bytes(<<"1","e","-","9","9","9">>) }

\* an integer around the limits of long long, and the byte that follows it
RangeIntegers ==
    { Bytes(<<"9","2","2","3","3","7","2","0","3","6","8","5","4","7","7","5","8","0","7">>),
      Bytes(<<"9","2","2","3","3","7","2","0","3","6","8","5","4","7","7","5","8","0","8">>),
      Bytes(<<"9","2","2","3","3","7","2","0","3","6","8","5","4","7","7","5","9","0","0">>),
      Bytes(<<"8","9","9","9","9","9","9","9","9","9","9","9","9","9","9","9","9","9","9">>),
      Bytes(<<"9","9","9","9","9","9","9","9","9","9","9","9","9","9","9","9","9","9">>),
      Bytes(<<"1","2","3","4","5","6","7","8","9","0","1","2","3","4","5","6","7","8","9","0">>) }

RangeIntegerInputs ==
    {s \o i \o t : s \in NumSigns, i \in RangeIntegers, t \in NumTails}

\* "\u followed by up to four bytes, hexadecimal digits or not, then the rest
HexProbes == {C("0"), C("A"), C("f"), C("G"), C("z"), C(" "), C("\""), C("\\")}

StringRests == {<<>>, Bytes(<<"\"">>), Bytes(<<"a", "\"">>)}

EscapeProbeInputs ==
    {Bytes(<<"\"", "\\", "u">>) \o p \o r :
        p \in ChunkSeqs({<<c>> : c \in HexProbes}, 4), r \in StringRests}

\* \uXXXX escapes: high surrogates, low surrogates and others
HexSample == {C("0"), C("D"), C("f")}

UEscape(a, b, c, d) == Bytes(<<"\\", "u">>) \o <<a, b, c, d>>

HighEscapes ==
    {UEscape(C("D"), b, c, d) :
        b \in {C("8"), C("9"), C("a"), C("B")}, c \in HexSample, d \in HexSample}

LowEscapes ==
    {UEscape(C("d"), b, c, d) :
        b \in {C("C"), C("d"), C("E"), C("F")}, c \in HexSample, d \in HexSample}

OtherUnits ==
    { <<>>, Bytes(<<"a">>), Bytes(<<"\\", "n">>), Bytes(<<"\\", "\"">>),
      UEscape(C("0"), C("0"), C("0"), C("0")),
      UEscape(C("0"), C("0"), C("4"), C("1")),
      UEscape(C("0"), C("0"), C("e"), C("9")),
      UEscape(C("2"), C("0"), C("A"), C("C")),
      UEscape(C("D"), C("7"), C("F"), C("F")),
      UEscape(C("E"), C("0"), C("0"), C("0")),
      UEscape(C("F"), C("F"), C("F"), C("F")) }

EscapeUnits == HighEscapes \cup LowEscapes \cup OtherUnits

EscapePairInputs ==
    {Bytes(<<"\"">>) \o a \o b \o Bytes(<<"\"">>) : a \in EscapeUnits, b \in EscapeUnits}

\* a few three-unit literals: a pair before or after another unit
EscapeTripleInputs ==
    {Bytes(<<"\"">>) \o a \o UEscape(C("D"), C("8"), C("3"), C("D"))
                     \o UEscape(C("D"), C("E"), C("0"), C("0")) \o b \o Bytes(<<"\"">>) :
        a \in OtherUnits, b \in OtherUnits}

\* identifiers, keywords or not, and the byte that follows them
KeywordInputs ==
    {k \o t : k \in {Bytes(<<"t", "r", "u", "e">>), Bytes(<<"f", "a", "l", "s", "e">>),
                      Bytes(<<"n", "u", "l", "l">>), Bytes(<<"t", "r", "u">>),
                      Bytes(<<"N">>)},
              t \in NumTails \cup {<<C("\n")>>, <<195, 169>>, <<226, 130>>}}

LexInputs ==
    ShortNumberInputs \cup LongNumberInputs \cup RangeNumberInputs
        \cup RangeIntegerInputs \cup KeywordInputs
        \cup EscapeProbeInputs \cup EscapePairInputs \cup EscapeTripleInputs

LexInit == InitWith(LexInputs, {{}}, "lex", {"buffer_get"})

\* token = lex_scan(lex, error); drv counts the scans and keeps the stream
\* as it was before this one
LexScan ==
    /\ pc = "lex"
    /\ abort = "none"
    /\ drv.op = "none" \/ lex.token \notin {TOKEN_EOF, TOKEN_INVALID}
    /\ Becomes(lex_scan(World))
    /\ drv' = [drv EXCEPT !.op = "scan", !.scans = @ + 1, !.pre = stream,
                          !.precalls = data.calls]
    /\ UNCHANGED <<input, flags, ndebug, pc, stack, result>>

LexNext == LexScan

SpecLex == LexInit /\ [][LexNext]_vars

----------------------------------------------------------------------------
(* JSON values: the value builders of jansson.h *)

\* typed_string_to_json(lex->value.string, W_STRING_BYTE)
typed_string_to_json(s) == [t |-> "string", s |-> CStr(s)]

json_integer(v) == [t |-> "integer", negative |-> v.negative, digits |-> v.digits]

json_real(v) == [t |-> "real", text |-> v.text]

json_true == [t |-> "true"]

json_false == [t |-> "false"]

json_null == [t |-> "null"]

\* an object keeps its members in insertion order
json_object == [t |-> "object", members |-> <<>>]

json_array == [t |-> "array", elems |-> <<>>]

\* json_object_get(object, key) is not null
json_object_get(object, key) ==
    \E i \in 1..Len(object.members) : object.members[i].key = CStr(key)

\* json_object_set_nocheck: a key already present gets the new value
json_object_set_nocheck(object, key, value) ==
    IF json_object_get(object, key) THEN
        [object EXCEPT !.members =
            [i \in 1..Len(@) |->
                IF @[i].key = CStr(key) THEN [key |-> CStr(key), value |-> value]
                ELSE @[i]]]
    ELSE [object EXCEPT !.members = Append(@, [key |-> CStr(key), value |-> value])]

json_array_append(array, elem) == [array EXCEPT !.elems = Append(@, elem)]

----------------------------------------------------------------------------
(* lex_steal_string, lex_close *)

lex_steal_string(W) ==
    IF W.lex.token = TOKEN_STRING
    THEN [w |-> [W EXCEPT !.lex.value = [kind |-> "none"]], result |-> W.lex.value]
    ELSE [w |-> W, result |-> [kind |-> "none"]]

lex_close(W) ==
    [W EXCEPT !.lex.value = IF W.lex.token = TOKEN_STRING /\ @.kind = "string"
                            THEN [kind |-> "freed"] ELSE @,
              !.lex.saved_text = <<>>]

----------------------------------------------------------------------------
(* The parser.  Each operator is one stretch of a parse_* function between
   two calls of parse_value; it yields the world, where the parser goes on,
   the call stack and the value just returned.  A frame of the stack is a
   parse_object or parse_array call waiting for parse_value: the container
   built so far and, in an object, the key of the member being parsed. *)

JSON_REJECT_DUPLICATES == "JSON_REJECT_DUPLICATES"
JSON_DISABLE_EOF_CHECK == "JSON_DISABLE_EOF_CHECK"
JSON_DECODE_ANY == "JSON_DECODE_ANY"

Goto(W, where, stk, ret) == [w |-> W, pc |-> where, stack |-> stk, ret |-> ret]

\* a failed assertion ends the program where it stands
Halt(W, stk) == Goto(W, "abort", stk, Pending)

Top(stk) == stk[Len(stk)]

Pop(stk) == SubSeq(stk, 1, Len(stk) - 1)

\* parse_json without the test of JSON_DECODE_ANY
parse_json_anyshape(W, fl) ==
    Bind(lex_scan(W), LAMBDA W1 :
        IF W1.abort # "none" THEN Halt(W1, <<>>)
        ELSE Goto(W1, "parse_value", <<>>, Pending))

\* parse_json up to its call of parse_value
parse_json(W, fl) ==
    Bind(lex_scan(W), LAMBDA W1 :
        IF W1.abort # "none" THEN Halt(W1, <<>>)
        ELSE IF JSON_DECODE_ANY \notin fl
                /\ W1.lex.token # CH_LBRACKET /\ W1.lex.token # CH_LBRACE
        THEN Goto(error_set(W1, "'[' or '{' expected", <<>>), "json_loadb", <<>>, nullptr)
        ELSE Goto(W1, "parse_value", <<>>, Pending))

\* parse_json from the return of parse_value
parse_json_resume(W, fl, json) ==
    IF json = nullptr THEN Goto(W, "json_loadb", <<>>, nullptr)
    ELSE
        Bind(IF JSON_DISABLE_EOF_CHECK \notin fl THEN lex_scan(W) ELSE W, LAMBDA W1 :
            IF W1.abort # "none" THEN Halt(W1, <<>>)
            ELSE IF JSON_DISABLE_EOF_CHECK \notin fl /\ W1.lex.token # TOKEN_EOF
            THEN Goto(error_set(W1, "end of file expected", <<>>),
                      "json_loadb", <<>>, nullptr)
            ELSE Goto([W1 EXCEPT !.error.position = W1.stream.position],
                      "json_loadb", <<>>, json))

\* parse_value with no report of its own for TOKEN_INVALID
parse_value_silent(W, stk) ==
    IF W.lex.token = TOKEN_STRING
    THEN Goto(W, "return", stk, typed_string_to_json(W.lex.value.s))
    ELSE IF W.lex.token = TOKEN_INTEGER THEN Goto(W, "return", stk, json_integer(W.lex.value))
    ELSE IF W.lex.token = TOKEN_REAL THEN Goto(W, "return", stk, json_real(W.lex.value))
    ELSE IF W.lex.token = TOKEN_TRUE THEN Goto(W, "return", stk, json_true)
    ELSE IF W.lex.token = TOKEN_FALSE THEN Goto(W, "return", stk, json_false)
    ELSE IF W.lex.token = TOKEN_NULL THEN Goto(W, "return", stk, json_null)
    ELSE IF W.lex.token = CH_LBRACE THEN Goto(W, "parse_object", stk, Pending)
    ELSE IF W.lex.token = CH_LBRACKET THEN Goto(W, "parse_array", stk, Pending)
    ELSE IF W.lex.token = TOKEN_INVALID
    THEN Goto(W, "return", stk, nullptr)
    ELSE Goto(error_set(W, "unexpected token", <<>>), "return", stk, nullptr)

\* parse_value: the switch on the current token; the containers are parsed
\* by parse_object and parse_array, whose result it passes on
parse_value(W, stk) ==
    IF W.lex.token = TOKEN_STRING
    THEN Goto(W, "return", stk, typed_string_to_json(W.lex.value.s))
    ELSE IF W.lex.token = TOKEN_INTEGER THEN Goto(W, "return", stk, json_integer(W.lex.value))
    ELSE IF W.lex.token = TOKEN_REAL THEN Goto(W, "return", stk, json_real(W.lex.value))
    ELSE IF W.lex.token = TOKEN_TRUE THEN Goto(W, "return", stk, json_true)
    ELSE IF W.lex.token = TOKEN_FALSE THEN Goto(W, "return", stk, json_false)
    ELSE IF W.lex.token = TOKEN_NULL THEN Goto(W, "return", stk, json_null)
    ELSE IF W.lex.token = CH_LBRACE THEN Goto(W, "parse_object", stk, Pending)
    ELSE IF W.lex.token = CH_LBRACKET THEN Goto(W, "parse_array", stk, Pending)
    ELSE IF W.lex.token = TOKEN_INVALID
    THEN Goto(error_set(W, "invalid token", <<>>), "return", stk, nullptr)
    ELSE Goto(error_set(W, "unexpected token", <<>>), "return", stk, nullptr)

\* parse_object up to its loop
parse_object(W, stk) ==
    Bind(lex_scan(W), LAMBDA W1 :
        IF W1.abort # "none" THEN Halt(W1, stk)
        ELSE IF W1.lex.token = CH_RBRACE THEN Goto(W1, "return", stk, json_object)
        ELSE Goto(W1, "parse_object_member",
                  Append(stk, [kind |-> "object", json |-> json_object, key |-> <<>>]),
                  Pending))

\* the loop of parse_object from the ':' that follows the key to the call of
\* parse_value
parse_object_colon(W, stk, key) ==
    Bind(lex_scan(W), LAMBDA W1 :
        IF W1.abort # "none" THEN Halt(W1, stk)
        ELSE IF W1.lex.token # CH_COLON
        THEN Goto(error_set(W1, "':' expected", <<>>), "return", Pop(stk), nullptr)
        ELSE
            Bind(lex_scan(W1), LAMBDA W2 :
                IF W2.abort # "none" THEN Halt(W2, stk)
                ELSE Goto(W2, "parse_value",
                          Append(Pop(stk), [Top(stk) EXCEPT !.key = key]), Pending)))

\* the loop of parse_object without the test of JSON_REJECT_DUPLICATES
parse_object_member_nodupcheck(W, stk, fl) ==
    IF W.lex.token # TOKEN_STRING
    THEN Goto(error_set(W, "string or '}' expected", <<>>), "return", Pop(stk), nullptr)
    ELSE
        Bind(lex_steal_string(W), LAMBDA k :
            IF k.result.kind # "string" THEN Goto(k.w, "return", Pop(stk), nullptr)
            ELSE parse_object_colon(k.w, stk, k.result.s))

\* the loop of parse_object from its top to the call of parse_value
parse_object_member(W, stk, fl) ==
    IF W.lex.token # TOKEN_STRING
    THEN Goto(error_set(W, "string or '}' expected", <<>>), "return", Pop(stk), nullptr)
    ELSE
        Bind(lex_steal_string(W), LAMBDA k :
            IF k.result.kind # "string" THEN Goto(k.w, "return", Pop(stk), nullptr)
            ELSE IF JSON_REJECT_DUPLICATES \in fl
                    /\ json_object_get(Top(stk).json, k.result.s)
            THEN Goto(error_set(k.w, "duplicate object key", <<>>),
                      "return", Pop(stk), nullptr)
            ELSE parse_object_colon(k.w, stk, k.result.s))

\* the loop of parse_object from the token that follows a member, and what
\* follows the loop
parse_object_next(W1, stk, object) ==
    IF W1.abort # "none" THEN Halt(W1, stk)
    ELSE IF W1.lex.token # CH_COMMA THEN
        IF W1.lex.token # CH_RBRACE
        THEN Goto(error_set(W1, "'}' expected", <<>>), "return", Pop(stk), nullptr)
        ELSE Goto(W1, "return", Pop(stk), object)
    ELSE
        Bind(lex_scan(W1), LAMBDA W2 :
            IF W2.abort # "none" THEN Halt(W2, stk)
            ELSE Goto(W2, "parse_object_member",
                      Append(Pop(stk), [Top(stk) EXCEPT !.json = object]), Pending))

\* the loop of parse_object from the return of parse_value
parse_object_resume(W, stk, value) ==
    IF value = nullptr THEN Goto(W, "return", Pop(stk), nullptr)
    ELSE parse_object_next(lex_scan(W), stk,
                           json_object_set_nocheck(Top(stk).json, Top(stk).key, value))

\* parse_array starting over, with no report, when the loop ends on a token
\* that is not ']'
parse_array_close_retry(W, stk, array) ==
    IF W.lex.token # CH_RBRACKET
    THEN Goto(W, "parse_array", stk, Pending)
    ELSE Goto(W, "return", stk, array)

\* what follows the loop of parse_array
parse_array_close(W, stk, array) ==
    IF W.lex.token # CH_RBRACKET
    THEN Goto(error_set(W, "']' expected", <<>>), "return", stk, nullptr)
    ELSE Goto(W, "return", stk, array)

\* while(lex->token) of parse_array: the call of parse_value, or the loop left
parse_array_loop(W, stk, frame) ==
    IF W.abort # "none" THEN Halt(W, Append(stk, frame))
    ELSE IF W.lex.token # TOKEN_EOF THEN Goto(W, "parse_value", Append(stk, frame), Pending)
    ELSE parse_array_close(W, stk, frame.json)

\* parse_array up to the first call of parse_value
parse_array(W, stk) ==
    Bind(lex_scan(W), LAMBDA W1 :
        IF W1.abort # "none" THEN Halt(W1, stk)
        ELSE IF W1.lex.token = CH_RBRACKET THEN Goto(W1, "return", stk, json_array)
        ELSE parse_array_loop(W1, stk, [kind |-> "array", json |-> json_array, key |-> <<>>]))

\* the loop of parse_array from the token that follows an element
parse_array_next(W1, stk, array) ==
    IF W1.abort # "none" THEN Halt(W1, stk)
    ELSE IF W1.lex.token # CH_COMMA THEN parse_array_close(W1, Pop(stk), array)
    ELSE parse_array_loop(lex_scan(W1), Pop(stk), [Top(stk) EXCEPT !.json = array])

\* the loop of parse_array from the return of parse_value
parse_array_resume(W, stk, elem) ==
    IF elem = nullptr THEN Goto(W, "return", Pop(stk), nullptr)
    ELSE parse_array_next(lex_scan(W), stk, json_array_append(Top(stk).json, elem))

----------------------------------------------------------------------------
(* Spec: json_loadb on a buffer, under every combination of the flags *)

JsonFlags == {JSON_REJECT_DUPLICATES, JSON_DISABLE_EOF_CHECK, JSON_DECODE_ANY}

\* the most token chunks of a short input
MaxTokens == 3

\* the pieces short inputs are made of: punctuation, a string, a number, a
\* keyword, white space, an undecodable byte, a NUL
TokenChunks ==
    { <<C("[")>>, <<C("]")>>, <<C("{")>>, <<C(",")>>,
      Bytes(<<"\"", "a", "\"">>), <<C("1")>>, Bytes(<<"t", "r", "u", "e">>),
      <<C(" ")>>, <<255>>, <<0>> }

ShortInputs == UNION { ChunkSeqs(TokenChunks, n) : n \in 0..MaxTokens }

\* whole documents, longer than the short inputs
Documents ==
    { Bytes(<<"[", "1", ",", "]">>),
      Bytes(<<"[", "1", ",", "t", "r", "u", "e", "]">>),
      Bytes(<<"[", "[", "1", "]", ",", "[", "]", "]">>),
      Bytes(<<"[", "{", "}", ",", "1", "]">>),
      Bytes(<<"[", "0", "1", "]">>),
      Bytes(<<"[", "1", ".", "]">>),
      Bytes(<<"[", "\n", "1", " ", "1", "]">>),
      Bytes(<<"{", "\"", "a", "\"", ":", "1", "}">>),
      Bytes(<<"{", "\"", "a", "\"", ":", "1", ",", "}">>),
      Bytes(<<"{", "\"", "a", "\"", ":", "1", ",", "\"", "b", "\"", ":", "[", "]", "}">>),
      Bytes(<<"{", "\"", "a", "\"", ":", "1", ",", "\"", "a", "\"", ":", "2", "}">>),
      Bytes(<<"{", "\"", "a", "\"", ":", "1", ",", "\"", "\\", "u", "0", "0", "6", "1",
              "\"", ":", "2", "}">>),
      Bytes(<<"[", "{", "\"", "a", "\"", ":", "1", ",", "\"", "a", "\"", ":", "[", "]",
              "}", "]">>),
      Bytes(<<"{", "\"", "a", "\"", ":", "{", "\"", "a", "\"", ":", "1", "}", "}">>),
      Bytes(<<"{", "\"", "a", "\"", " ", "1", "}">>),
      Bytes(<<"{", "\"", "a", "\"", ":", "1", " ", "2", "}">>),
      Bytes(<<"1", ".", "5", "e", "1", "0">>),
      Bytes(<<"-", "1", "2">>),
      Bytes(<<"n", "u", "l", "l">>),
      Bytes(<<"x">>),
      Bytes(<<".">>),
      Bytes(<<"[", "t", "r", "u", "]">>),
      Bytes(<<"[", "1", ",", ".", "]">>),
      Bytes(<<"{", "}", " ", "t", "r", "a", "i", "l", "i", "n", "g">>),
      <<C("["), C("1"), 0, C("]")>>,
      Bytes(<<"[", "1", ",">>),
      Bytes(<<"{", "\"", "a", "\"", ":", "1", ",">>),
      Bytes(<<"f", "a", "l", "s", "e">>),
      Bytes(<<"{", "}">>),
      Bytes(<<"}">>),
      Bytes(<<":">>),
      Bytes(<<"[", "}">>),
      Bytes(<<"{", ":">>),
      Bytes(<<"{", "\"", "a", "\"", "}">>),
      Bytes(<<"{", "\"", "a", "\"", ":">>),
      Bytes(<<"{", "\"", "a", "\"", ":", "}">>) }

DocumentTails ==
    { <<>>, <<C(" ")>>, <<C("\n")>>, <<C(",")>>, <<C("x")>>, <<C("1")>>, <<255>>, <<0>>,
      <<C(" "), C(" "), C("]")>>, <<195, 169>>, <<226, 130>> }

DocumentInputs == { d \o t : d \in Documents, t \in DocumentTails }

ParseInputs == ShortInputs \cup DocumentInputs

\* json_loadb up to its call of parse_json
Init == InitWith(ParseInputs, SUBSET JsonFlags, "parse_json", {"buffer_get"})

\* the parser goes where the stretch just run says
Continue(k) ==
    /\ Becomes(k.w)
    /\ pc' = k.pc
    /\ stack' = k.stack
    /\ drv' = [drv EXCEPT !.ret = k.ret]
    /\ UNCHANGED <<input, flags, ndebug, result>>

ParseJson ==
    /\ pc = "parse_json"
    /\ abort = "none"
    /\ Continue(parse_json(World, flags))

ParseValue ==
    /\ pc = "parse_value"
    /\ abort = "none"
    /\ Continue(parse_value(World, stack))

ParseObject ==
    /\ pc = "parse_object"
    /\ abort = "none"
    /\ Continue(parse_object(World, stack))

ParseObjectMember ==
    /\ pc = "parse_object_member"
    /\ abort = "none"
    /\ Continue(parse_object_member(World, stack, flags))

ParseObjectResume ==
    /\ pc = "return"
    /\ abort = "none"
    /\ stack # <<>>
    /\ Top(stack).kind = "object"
    /\ Continue(parse_object_resume(World, stack, drv.ret))

ParseArray ==
    /\ pc = "parse_array"
    /\ abort = "none"
    /\ Continue(parse_array(World, stack))

ParseArrayResume ==
    /\ pc = "return"
    /\ abort = "none"
    /\ stack # <<>>
    /\ Top(stack).kind = "array"
    /\ Continue(parse_array_resume(World, stack, drv.ret))

ParseJsonResume ==
    /\ pc = "return"
    /\ abort = "none"
    /\ stack = <<>>
    /\ Continue(parse_json_resume(World, flags, drv.ret))

\* json_loadb from the return of parse_json: lex_close, return result
JsonLoadbReturn ==
    /\ pc = "json_loadb"
    /\ abort = "none"
    /\ Becomes(lex_close(World))
    /\ result' = drv.ret
    /\ pc' = "done"
    /\ UNCHANGED <<input, flags, ndebug, drv, stack>>

Next ==
    \/ ParseJson
    \/ ParseValue
    \/ ParseObject
    \/ ParseObjectMember
    \/ ParseObjectResume
    \/ ParseArray
    \/ ParseArrayResume
    \/ ParseJsonResume
    \/ JsonLoadbReturn

Spec == Init /\ [][Next]_vars

----------------------------------------------------------------------------
(* Claims about the byte stream (SpecStream) *)

\* C1: once the stream status is Eof or Error it never becomes Ok again, and
\* every later stream_get returns that sentinel and leaves line, column and
\* byte offset as they were.
C1_StickyStatus ==
    [][stream.state # STREAM_STATE_OK =>
          /\ stream'.state = stream.state
          /\ stream'.line = stream.line
          /\ stream'.column = stream.column
          /\ stream'.position = stream.position
          /\ (drv'.op = "get" => drv'.c = stream.state)]_vars

\* a stream_get made after the stream had latched Error, and one pushback later
C1_Witness ==
    /\ drv.op = "get"
    /\ drv.reget
    /\ drv.pre.state = STREAM_STATE_ERROR
    /\ drv.c = STREAM_STATE_ERROR

\* C4: stream_unget(b) of the byte b just returned (a newline, an ASCII byte
\* or a lead byte) puts line, column and byte offset back to their values
\* before that stream_get.
C4_UngetRestoresCounters ==
    (drv.op = "unget" /\ IsByte(drv.c) /\ utf8_check_first(drv.c) # 0) =>
        /\ stream.line = drv.pre.line
        /\ stream.column = drv.pre.column
        /\ stream.position = drv.pre.position

\* a newline pushed back on a line that already held a character
C4_Witness ==
    /\ drv.op = "unget"
    /\ drv.c = C("\n")
    /\ drv.pre.column > 0
    /\ stream.column = drv.pre.column

\* C5: after stream_get returned b (0x00..0x7F or a lead byte) and
\* stream_unget(b), the next stream_get returns b again and pulls no byte
\* from the ByteSource.
C5_PushbackRedelivers ==
    (drv.op = "get" /\ drv.reget /\ IsByte(drv.ungotc)
        /\ utf8_check_first(drv.ungotc) # 0) =>
        /\ drv.c = drv.ungotc
        /\ data.calls = drv.precalls

NewlinesIn(s) == Cardinality({i \in DOMAIN s : s[i] = 10})

\* the characters of s after its last newline: every byte but the
\* continuation bytes 0x80..0xBF starts one
CharsSinceNewline(s) ==
    LET nl == {i \in DOMAIN s : s[i] = 10}
        last == IF nl = {} THEN 0 ELSE CHOOSE i \in nl : \A j \in nl : j <= i
    IN Cardinality({i \in (last + 1)..Len(s) : s[i] < 128 \/ s[i] > 191})

\* C6: the byte offset is the number of bytes delivered net of pushbacks, line
\* is 1 plus the newlines delivered, column is the number of characters
\* delivered since the last newline.
C6_PositionTracking ==
    /\ stream.position = Len(drv.delivered)
    /\ stream.line = 1 + NewlinesIn(drv.delivered)
    /\ stream.column = CharsSinceNewline(drv.delivered)

\* a 4-byte character consumed on the second line: one column, four bytes
C6_Witness ==
    /\ drv.op = "save"
    /\ drv.delivered = <<10, 240, 159, 152, 128>>
    /\ stream.line = 2
    /\ stream.column = 1
    /\ stream.position = 5

----------------------------------------------------------------------------
(* Claims about the lexer (SpecLex) *)

\* the reference reading of a string literal, independent of the scanner

RefHexLower == Bytes(<<"0","1","2","3","4","5","6","7","8","9","a","b","c","d","e","f">>)
RefHexUpper == Bytes(<<"0","1","2","3","4","5","6","7","8","9","A","B","C","D","E","F">>)

RefIsHex(b) == \E i \in 1..16 : RefHexLower[i] = b \/ RefHexUpper[i] = b

RefHexValue(b) == (CHOOSE i \in 1..16 : RefHexLower[i] = b \/ RefHexUpper[i] = b) - 1

RECURSIVE RefUnits(_)
\* the units of the text between the quotes: \uXXXX, \x, or one byte
RefUnits(body) ==
    IF body = <<>> THEN <<>>
    ELSE IF body[1] = C("\\") THEN
        LET n == IF Len(body) >= 2 /\ body[2] = C("u") THEN Min(6, Len(body))
                 ELSE Min(2, Len(body))
        IN <<SubSeq(body, 1, n)>> \o RefUnits(SubSeq(body, n + 1, Len(body)))
    ELSE <<<<body[1]>>>> \o RefUnits(Tail(body))

RefIsUEscape(u) ==
    Len(u) = 6 /\ u[1] = C("\\") /\ u[2] = C("u") /\ \A i \in 3..6 : RefIsHex(u[i])

RefIsShort(u) ==
    Len(u) = 2 /\ u[1] = C("\\")
        /\ u[2] \in {C("\""), C("\\"), C("/"), C("b"), C("f"), C("n"), C("r"), C("t")}

RefIsPlain(u) == Len(u) = 1 /\ u[1] >= 32 /\ u[1] < 128 /\ u[1] # C("\"") /\ u[1] # C("\\")

RefBody == SubSeq(input, 2, Len(input) - 1)

\* the input is one string literal whose escapes are all well-formed
RefWellFormedString ==
    /\ Len(input) >= 2
    /\ input[1] = C("\"")
    /\ input[Len(input)] = C("\"")
    /\ LET us == RefUnits(RefBody) IN
       \A i \in DOMAIN us : RefIsUEscape(us[i]) \/ RefIsShort(us[i]) \/ RefIsPlain(us[i])

RefCode(u) ==
    4096 * RefHexValue(u[3]) + 256 * RefHexValue(u[4])
        + 16 * RefHexValue(u[5]) + RefHexValue(u[6])

RefIsHigh(u) == RefIsUEscape(u) /\ RefCode(u) \in 55296..56319
RefIsLow(u) == RefIsUEscape(u) /\ RefCode(u) \in 56320..57343

RECURSIVE RefValid(_)
\* no lone surrogate and no \u0000 among the units
RefValid(us) ==
    IF us = <<>> THEN TRUE
    ELSE IF RefIsHigh(us[1]) THEN
        Len(us) >= 2 /\ RefIsLow(us[2]) /\ RefValid(SubSeq(us, 3, Len(us)))
    ELSE IF RefIsLow(us[1]) THEN FALSE
    ELSE IF RefIsUEscape(us[1]) /\ RefCode(us[1]) = 0 THEN FALSE
    ELSE RefValid(Tail(us))

RefHasPair(us) == \E i \in 1..(Len(us) - 1) : RefIsHigh(us[i]) /\ RefIsLow(us[i + 1])

\* the code point of a surrogate pair
RefPair(h, l) == (h - 55296) * 1024 + (l - 56320) + 65536

\* the 4-byte UTF-8 form 11110xxx 10xxxxxx 10xxxxxx 10xxxxxx
RefUtf8Of4(cp) ==
    <<240 + (cp \div 262144), 128 + ((cp \div 4096) % 64),
      128 + ((cp \div 64) % 64), 128 + (cp % 64)>>

RefUtf8(cp) ==
    IF cp < 128 THEN <<cp>>
    ELSE IF cp < 2048 THEN <<192 + (cp \div 64), 128 + (cp % 64)>>
    ELSE <<224 + (cp \div 4096), 128 + ((cp \div 64) % 64), 128 + (cp % 64)>>

RefShortValue(b) ==
    IF b = C("b") THEN 8 ELSE IF b = C("f") THEN 12 ELSE IF b = C("n") THEN 10
    ELSE IF b = C("r") THEN 13 ELSE IF b = C("t") THEN 9 ELSE b

RECURSIVE RefDecode(_)
\* the decoded bytes of valid units
RefDecode(us) ==
    IF us = <<>> THEN <<>>
    ELSE IF RefIsHigh(us[1]) THEN
        RefUtf8Of4(RefPair(RefCode(us[1]), RefCode(us[2])))
            \o RefDecode(SubSeq(us, 3, Len(us)))
    ELSE IF RefIsUEscape(us[1]) THEN RefUtf8(RefCode(us[1])) \o RefDecode(Tail(us))
    ELSE IF RefIsShort(us[1]) THEN <<RefShortValue(us[1][2])>> \o RefDecode(Tail(us))
    ELSE us[1] \o RefDecode(Tail(us))

FirstScanDone == pc = "lex" /\ drv.scans = 1

\* C7: in a string literal, \u not followed by four hexadecimal digits (or cut
\* short by the end of input) gives an INVALID token with an error, and no
\* assertion of decode_unicode_escape fails.
C7_EscapeNeedsFourHexDigits ==
    (/\ FirstScanDone
     /\ Len(input) >= 3
     /\ SubSeq(input, 1, 3) = Bytes(<<"\"", "\\", "u">>)
     /\ ~(Len(input) >= 7 /\ \A i \in 4..7 : RefIsHex(input[i])))
    => /\ abort = "none"
       /\ lex.token = TOKEN_INVALID
       /\ error.text # NoText

\* C8: a string literal with valid escapes that holds a surrogate pair decodes
\* to the reference bytes, the pair giving the 4-byte UTF-8 form of
\* ((h - 0xD800) << 10) + (l - 0xDC00) + 0x10000.
C8_SurrogatePairDecoding ==
    (FirstScanDone /\ RefWellFormedString /\ RefValid(RefUnits(RefBody))
        /\ RefHasPair(RefUnits(RefBody)))
    => /\ abort = "none"
       /\ lex.token = TOKEN_STRING
       /\ lex.value = [kind |-> "string", s |-> RefDecode(RefUnits(RefBody))]
       /\ \A i \in 1..(Len(RefUnits(RefBody)) - 1) :
            LET us == RefUnits(RefBody) IN
            (RefIsHigh(us[i]) /\ RefIsLow(us[i + 1])) =>
                RefPair(RefCode(us[i]), RefCode(us[i + 1])) \in 65536..1114111

\* the literal "\uD83D\uDE00" scanned to the bytes F0 9F 98 80
C8_Witness ==
    /\ FirstScanDone
    /\ input = Bytes(<<"\"">>) \o UEscape(C("D"), C("8"), C("3"), C("D"))
                 \o UEscape(C("D"), C("E"), C("0"), C("0")) \o Bytes(<<"\"">>)
    /\ lex.token = TOKEN_STRING
    /\ lex.value = [kind |-> "string", s |-> <<240, 159, 152, 128>>]

\* C9: a string literal with well-formed escapes among which a high surrogate
\* is not followed by a low one, a low surrogate has no high one before it, or
\* \u0000 occurs, gives an INVALID token, an "invalid Unicode" or "not allowed"
\* error and no decoded string.
C9_InvalidUnicodeRejected ==
    (FirstScanDone /\ RefWellFormedString /\ ~RefValid(RefUnits(RefBody)))
    => /\ abort = "none"
       /\ lex.token = TOKEN_INVALID
       /\ lex.value.kind # "string"
       /\ error.text.msg \in {"invalid Unicode", "\\u0000 is not allowed"}

\* a high surrogate followed by a second escape that is no low surrogate
C9_Witness ==
    /\ FirstScanDone
    /\ input = Bytes(<<"\"">>) \o UEscape(C("D"), C("8"), C("0"), C("0"))
                 \o UEscape(C("0"), C("0"), C("4"), C("1")) \o Bytes(<<"\"">>)
    /\ lex.token = TOKEN_INVALID
    /\ error.text.msg = "invalid Unicode"
    /\ error.text.args = <<55296, 65>>

\* the reference grammar of a number literal, independent of the scanner:
\* -?(0|[1-9][0-9]*)(\.[0-9]+)?([eE][+-]?[0-9]+)?

RefIsDigit(b) == \E i \in 1..10 : RefHexLower[i] = b

RefIsDigits(s) == s # <<>> /\ \A i \in DOMAIN s : RefIsDigit(s[i])

RefIsIntPart(s) == s = <<C("0")>> \/ (RefIsDigits(s) /\ s[1] # C("0"))

RefIsFracPart(s) == s = <<>> \/ (s[1] = C(".") /\ RefIsDigits(Tail(s)))

RefIsExpPart(s) ==
    \/ s = <<>>
    \/ /\ s[1] \in {C("e"), C("E")}
       /\ LET r == Tail(s) IN
          RefIsDigits(IF r # <<>> /\ r[1] \in {C("+"), C("-")} THEN Tail(r) ELSE r)

RefMatchesNumber(s) ==
    LET b == IF s # <<>> /\ s[1] = C("-") THEN Tail(s) ELSE s IN
    \E i \in 0..Len(b) : \E j \in i..Len(b) :
        /\ RefIsIntPart(SubSeq(b, 1, i))
        /\ RefIsFracPart(SubSeq(b, i + 1, j))
        /\ RefIsExpPart(SubSeq(b, j + 1, Len(b)))

RefIsIntegerText(s) == \A i \in DOMAIN s : s[i] \notin {C("."), C("e"), C("E")}

\* the first scan was a call of lex_scan_number: the input starts a number
NumberScanned ==
    FirstScanDone /\ input # <<>> /\ (RefIsDigit(input[1]) \/ input[1] = C("-"))

\* the text lex_scan_number consumed: the input up to the stream's offset
Consumed == SubSeq(input, 1, stream.position)

\* the scanner stopped after a leading 0 because a digit follows it
ZeroThenDigit ==
    /\ Consumed \in {Bytes(<<"0">>), Bytes(<<"-", "0">>)}
    /\ Len(input) > Len(Consumed)
    /\ RefIsDigit(input[Len(Consumed) + 1])

\* the value of the text is outside long long (an integer) or overflows a
\* double (a real)
RefOutOfRange(s) ==
    IF RefIsIntegerText(s) THEN
        LET neg == s[1] = C("-")
            mag == StripZeros(IF neg THEN Tail(s) ELSE s)
            lim == IF neg THEN LLONG_MIN_DIGITS ELSE LLONG_MAX_DIGITS
        IN Len(mag) > Len(lim) \/ (Len(mag) = Len(lim) /\ DigitsLess(lim, mag))
    ELSE jsonp_strtod_overflows(s)

IsNumberToken == lex.token \in {TOKEN_INTEGER, TOKEN_REAL}

IntegerLiteralScanned ==
    /\ NumberScanned
    /\ RefMatchesNumber(Consumed)
    /\ RefIsIntegerText(Consumed)
    /\ ~ZeroThenDigit

RefIsNegative(s) == s[1] = C("-")

\* the value of an integer literal as sign and magnitude; zero has no digits
\* and no sign
RefIntegerValue(s) ==
    LET mag == IF RefIsNegative(s) THEN Tail(s) ELSE s IN
    IF mag = <<C("0")>> THEN [kind |-> "integer", negative |-> FALSE, digits |-> <<>>]
    ELSE [kind |-> "integer", negative |-> RefIsNegative(s), digits |-> mag]

RefRangeMessage(s) ==
    IF RefIsNegative(s) THEN "too big negative integer" ELSE "too big integer"

RangeMessages == {"too big negative integer", "too big integer"}

\* C11 as stated: an integer literal outside the signed 64-bit range yields
\* INVALID with 'too big integer' or 'too big negative integer' as the recorded
\* error; a literal within the range yields INTEGER with exactly its value.
C11_IntegerRange_Original ==
    IntegerLiteralScanned =>
        IF RefOutOfRange(Consumed) THEN
            /\ lex.token = TOKEN_INVALID
            /\ error.text.msg = RefRangeMessage(Consumed)
        ELSE
            /\ lex.token = TOKEN_INTEGER
            /\ lex.value = RefIntegerValue(Consumed)

\* C11 amended: an integer literal outside the signed 64-bit range never produces an
\* INTEGER token (no wrapped or clamped value): the token is INVALID and
\* 'too big integer' (positive) or 'too big negative integer' (negative) is
\* reported, and is the recorded message unless the stream had recorded its
\* decode failure of the byte after the literal first; every literal within
\* the range yields INTEGER with exactly its value and no range report.
C11_IntegerRange ==
    IntegerLiteralScanned =>
        IF RefOutOfRange(Consumed) THEN
            /\ lex.token = TOKEN_INVALID
            /\ lex.value.kind # "integer"
            /\ error.last = RefRangeMessage(Consumed)
            /\ stream.state # STREAM_STATE_ERROR =>
                    error.text.msg = RefRangeMessage(Consumed)
        ELSE
            /\ lex.token = TOKEN_INTEGER
            /\ lex.value = RefIntegerValue(Consumed)
            /\ error.last \notin RangeMessages
            /\ error.text.msg \notin RangeMessages

\* the least integer below the range is refused, the text being the context
C11_Witness ==
    /\ IntegerLiteralScanned
    /\ Consumed = Bytes(<<"-","9","2","2","3","3","7","2","0","3","6","8","5","4","7","7",
                          "5","8","0","9">>)
    /\ lex.token = TOKEN_INVALID
    /\ error.text.msg = "too big negative integer"
    /\ error.text.near = SubSeq(Consumed, 1, 20)

\* the ways an assertion of stream_unget or lex_unget_unsave ends the program
\* (without assertions, the cursor running below the buffer)
UngetAborts ==
    {"assert: buffer_pos > 0", "undefined: buffer_pos underflow",
     "assert: buffer[buffer_pos] == c", "assert: c == d"}

\* C20: pushback discipline of the lexer.  In every run of lex_scan, on any
\* input, every stream_unget of a real byte is made with the cursor above 0
\* and with the byte stream_get returned last, never twice without a
\* stream_get between; the assertions of stream_unget and lex_unget_unsave
\* never fail.
C20_PushbackDiscipline ==
    /\ ~stream.misuse
    /\ abort \notin UngetAborts

\* the newline after a keyword was read as lookahead and pushed back, within
\* the rules: the line is 1 again
C20_Witness ==
    /\ drv.op = "scan"
    /\ input = Bytes(<<"t", "r", "u", "e", "\n">>)
    /\ lex.token = TOKEN_TRUE
    /\ stream.got = <<>>
    /\ stream.position = 4
    /\ stream.line = 1
    /\ ~stream.misuse
    /\ abort = "none"

----------------------------------------------------------------------------
(* Claims about the parser (Spec) *)

\* the decode is over: json_loadb has returned
Done == pc = "done"

\* the stream has latched Error and reported the decode failure
StreamFailed ==
    stream.state = STREAM_STATE_ERROR /\ error.text.msg = "unable to decode byte"

\* C2: first-failure-wins.  Within one decode, once an error has been
\* reported every later report is a no-op: no step changes the message, the
\* line or the column of a record that holds a report, and a decode failure
\* of the stream stays the one reported whatever the parser reports after it.
C2_FirstFailureWins ==
    /\ [][error.text # NoText =>
            /\ error'.text = error.text
            /\ error'.line = error.line
            /\ error'.column = error.column]_vars
    /\ [](stream.state = STREAM_STATE_ERROR => error.text.msg = "unable to decode byte")

\* a decode in which the parser reported after the stream did: the record
\* still holds the stream's report
C2_Witness ==
    /\ Done
    /\ StreamFailed
    /\ error.reports >= 2
    /\ result = nullptr

\* C3: a failure at the byte-stream layer terminates the whole decode.  For
\* every input and every combination of the flags, a decode during which the
\* stream latched Error and reported the decode failure returns no value.
C3_StreamFailureTerminates ==
    (Done /\ StreamFailed) => result = nullptr


\* reference values, written out
RefInt(d) == [t |-> "integer", negative |-> FALSE, digits |-> <<C(d)>>]

RefObject(ms) == [t |-> "object", members |-> ms]

RefArray(es) == [t |-> "array", elems |-> es]

RefMember(k, v) == [key |-> Bytes(<<k>>), value |-> v]

\* documents in which an object holds the key a twice: where the second
\* occurrence ends, its raw text, and the value with the last occurrence kept
DuplicateDocuments ==
    { [doc |-> Bytes(<<"{", "\"", "a", "\"", ":", "1", ",", "\"", "a", "\"", ":", "2", "}">>),
       second |-> 10,
       raw |-> Bytes(<<"\"", "a", "\"">>),
       value |-> RefObject(<<RefMember("a", RefInt("2"))>>)],
      [doc |-> Bytes(<<"{", "\"", "a", "\"", ":", "1", ",", "\"", "\\", "u", "0", "0", "6", "1",
                       "\"", ":", "2", "}">>),
       second |-> 15,
       raw |-> Bytes(<<"\"", "\\", "u", "0", "0", "6", "1", "\"">>),
       value |-> RefObject(<<RefMember("a", RefInt("2"))>>)],
      [doc |-> Bytes(<<"[", "{", "\"", "a", "\"", ":", "1", ",", "\"", "a", "\"", ":", "[", "]",
                       "}", "]">>),
       second |-> 11,
       raw |-> Bytes(<<"\"", "a", "\"">>),
       value |-> RefArray(<<RefObject(<<RefMember("a", RefArray(<<>>))>>)>>)] }

\* the input is the document d followed by one of the tails
IsDocument(d) ==
    /\ Len(input) >= Len(d)
    /\ SubSeq(input, 1, Len(d)) = d
    /\ SubSeq(input, Len(d) + 1, Len(input)) \in DocumentTails

RefIsBlank(s) == \A i \in DOMAIN s : s[i] \in {C(" "), C("\n"), 9, 13}

\* nothing but white space follows the document d
BlankAfter(d) == RefIsBlank(SubSeq(input, Len(d) + 1, Len(input)))

RECURSIVE RefKeysDistinct(_)
\* no object of the value v, at any depth, holds a key twice
RefKeysDistinct(v) ==
    IF v.t = "object" THEN
        /\ \A i, j \in DOMAIN v.members :
              v.members[i].key = v.members[j].key => i = j
        /\ \A i \in DOMAIN v.members : RefKeysDistinct(v.members[i].value)
    ELSE IF v.t = "array" THEN \A i \in DOMAIN v.elems : RefKeysDistinct(v.elems[i])
    ELSE TRUE

\* C12: duplicate-key policy.  For a document in which an object, at the top
\* or nested, holds a decoded key twice: with JSON_REJECT_DUPLICATES the decode
\* fails with 'duplicate object key' reported at the second occurrence; without
\* it the decode succeeds (what follows the document permitting) and the object
\* maps the key to the value of its last occurrence.  The error is reported
\* under that flag only, and no object returned holds a key twice.
C12_DuplicateKeys ==
    Done =>
        /\ \A d \in DuplicateDocuments :
              IsDocument(d.doc) =>
                  IF JSON_REJECT_DUPLICATES \in flags THEN
                      /\ result = nullptr
                      /\ error.text.msg = "duplicate object key"
                      /\ error.text.near = d.raw
                      /\ error.position = d.second
                      /\ error.line = 1
                      /\ error.column = d.second
                  ELSE
                      (JSON_DISABLE_EOF_CHECK \in flags \/ BlankAfter(d.doc)) =>
                          /\ result = d.value
                          /\ error.text = NoText
        /\ error.text.msg = "duplicate object key" => JSON_REJECT_DUPLICATES \in flags
        /\ result # nullptr => RefKeysDistinct(result)

\* the nested object with the key twice, duplicates allowed: the array of the
\* object that maps a to the empty array
C12_Witness ==
    /\ Done
    /\ input = Bytes(<<"[", "{", "\"", "a", "\"", ":", "1", ",", "\"", "a", "\"", ":", "[", "]",
                       "}", "]">>)
    /\ JSON_REJECT_DUPLICATES \notin flags
    /\ result = RefArray(<<RefObject(<<RefMember("a", RefArray(<<>>))>>)>>)

RECURSIVE RefSkipBlank(_)
\* the text without the white space it starts with
RefSkipBlank(s) ==
    IF s # <<>> /\ RefIsBlank(<<s[1]>>) THEN RefSkipBlank(Tail(s)) ELSE s

RECURSIVE RefDropBlank(_)
\* the text without the white space it ends with
RefDropBlank(s) ==
    IF s # <<>> /\ RefIsBlank(<<s[Len(s)]>>) THEN RefDropBlank(SubSeq(s, 1, Len(s) - 1))
    ELSE s

RefTrim(s) == RefDropBlank(RefSkipBlank(s))

\* the first token of the input is '[' or '{'
RefStartsContainer ==
    LET s == RefSkipBlank(input) IN s # <<>> /\ s[1] \in {C("["), C("{")}

\* one scalar token and the value it stands for
ScalarDocuments ==
    { [doc |-> Bytes(<<"\"", "a", "\"">>), value |-> [t |-> "string", s |-> Bytes(<<"a">>)]],
      [doc |-> Bytes(<<"1">>), value |-> RefInt("1")],
      [doc |-> Bytes(<<"-", "1", "2">>),
       value |-> [t |-> "integer", negative |-> TRUE, digits |-> Bytes(<<"1", "2">>)]],
      [doc |-> Bytes(<<"1", ".", "5", "e", "1", "0">>),
       value |-> [t |-> "real", text |-> Bytes(<<"1", ".", "5", "e", "1", "0">>)]],
      [doc |-> Bytes(<<"t", "r", "u", "e">>), value |-> [t |-> "true"]],
      [doc |-> Bytes(<<"f", "a", "l", "s", "e">>), value |-> [t |-> "false"]],
      [doc |-> Bytes(<<"n", "u", "l", "l">>), value |-> [t |-> "null"]] }

ShapeMessage == "'[' or '{' expected"

\* C13: top-level shape.  Without JSON_DECODE_ANY, an input whose first token
\* is neither '{' nor '[' fails: parse_json reports "'[' or '{' expected" and
\* returns no value without ever calling parse_value (no value is built).
\* With JSON_DECODE_ANY a single string, number, true, false or null token,
\* white space around it, decodes to the corresponding scalar.  The shape
\* error is reported in the first case only.
C13_TopLevelShape ==
    /\ (JSON_DECODE_ANY \notin flags /\ ~RefStartsContainer) =>
          /\ pc \in {"parse_json", "json_loadb", "done"}
          /\ stack = <<>>
          /\ drv.ret \in {Pending, nullptr}
          /\ pc # "parse_json" => (drv.ret = nullptr /\ error.last = ShapeMessage)
          /\ Done => result = nullptr
    /\ (JSON_DECODE_ANY \in flags /\ Done) =>
          \A s \in ScalarDocuments :
              RefTrim(input) = s.doc => (result = s.value /\ error.text = NoText)
    /\ error.last = ShapeMessage => (JSON_DECODE_ANY \notin flags /\ ~RefStartsContainer)

\* a bare negative integer at the top level, scalars allowed
C13_Witness ==
    /\ Done
    /\ JSON_DECODE_ANY \in flags
    /\ input = Bytes(<<"-", "1", "2", " ">>)
    /\ result = [t |-> "integer", negative |-> TRUE, digits |-> Bytes(<<"1", "2">>)]

\* complete top-level containers, none a prefix of another
ContainerDocuments ==
    { Bytes(<<"[", "]">>),
      Bytes(<<"{", "}">>),
      Bytes(<<"[", "1", "]">>),
      Bytes(<<"[", "\"", "a", "\"", "]">>),
      Bytes(<<"[", "t", "r", "u", "e", "]">>),
      Bytes(<<"[", "[", "1", "]", ",", "[", "]", "]">>),
      Bytes(<<"[", "{", "}", ",", "1", "]">>),
      Bytes(<<"{", "\"", "a", "\"", ":", "1", "}">>),
      Bytes(<<"{", "\"", "a", "\"", ":", "{", "\"", "a", "\"", ":", "1", "}", "}">>) }

\* the input is the value d followed by anything
StartsWith(d) == Len(input) >= Len(d) /\ SubSeq(input, 1, Len(d)) = d

\* what follows the value d
After(d) == SubSeq(input, Len(d) + 1, Len(input))

\* the offset of the first byte after the value d that is no white space
FirstUnexpected(d) == Len(input) - Len(RefSkipBlank(After(d)))

\* the bytes of the character a byte starts: none for a byte that starts no
\* character
RefCharLength(b) ==
    IF b < 128 THEN 1
    ELSE IF 194 <= b /\ b <= 223 THEN 2
    ELSE IF 224 <= b /\ b <= 239 THEN 3
    ELSE IF 240 <= b /\ b <= 244 THEN 4
    ELSE 0

\* C14: exact consumption required and content other than white space after
\* the top-level value: the decode fails and the error's byte offset and
\* column are those of the first unexpected character of that content (read
\* either as the position in front of that character or as the position just
\* behind it).
C14_TrailingContentPosition ==
    (Done /\ JSON_DISABLE_EOF_CHECK \notin flags) =>
        \A d \in ContainerDocuments :
            (StartsWith(d) /\ ~RefIsBlank(After(d))) =>
                LET k == FirstUnexpected(d) IN
                /\ result = nullptr
                /\ error.text # NoText
                /\ error.position >= k
                /\ error.position <= k + RefCharLength(input[k + 1])
                /\ error.line = 1 + NewlinesIn(SubSeq(input, 1, k))
                /\ error.column >= CharsSinceNewline(SubSeq(input, 1, k))
                /\ error.column <= CharsSinceNewline(SubSeq(input, 1, k)) + 1

\* the bytes that would make a token of the kind longer
RefContinuation(kind) ==
    IF kind = "integer" THEN {b \in 0..255 : RefIsDigit(b)} \cup {C("."), C("e"), C("E")}
    ELSE IF kind = "real" THEN {b \in 0..255 : RefIsDigit(b)}
    ELSE IF kind = "keyword" THEN (65..90) \cup (97..122)
    ELSE {}

\* top-level values of every kind
ValueDocuments ==
    {[doc |-> d, kind |-> "container"] : d \in ContainerDocuments}
        \cup { [doc |-> Bytes(<<"\"", "a", "\"">>), kind |-> "string"],
               [doc |-> Bytes(<<"1">>), kind |-> "integer"],
               [doc |-> Bytes(<<"-", "1", "2">>), kind |-> "integer"],
               [doc |-> Bytes(<<"1", ".", "5", "e", "1", "0">>), kind |-> "real"],
               [doc |-> Bytes(<<"t", "r", "u", "e">>), kind |-> "keyword"],
               [doc |-> Bytes(<<"f", "a", "l", "s", "e">>), kind |-> "keyword"],
               [doc |-> Bytes(<<"n", "u", "l", "l">>), kind |-> "keyword"] }

\* the white space the input starts with
LeadingBlank == Len(input) - Len(RefSkipBlank(input))

\* the input is white space, the value v, and something that does not make
\* the last token of v longer
IsValueThenRest(v) ==
    LET body == RefSkipBlank(input) IN
    /\ Len(body) >= Len(v.doc)
    /\ SubSeq(body, 1, Len(v.doc)) = v.doc
    /\ Len(body) > Len(v.doc) => body[Len(v.doc) + 1] \notin RefContinuation(v.kind)
    /\ v.kind # "container" => JSON_DECODE_ANY \in flags

\* C15: with JSON_DISABLE_EOF_CHECK a decode that returns a value reports as
\* position the number of input bytes up to and including the last byte of
\* the top-level value, for containers, strings, and numbers and keywords
\* whose end is seen by one byte of lookahead, whatever follows; and the
\* decode returns a value whenever the stream met no undecodable byte.
C15_BytesConsumed ==
    (Done /\ JSON_DISABLE_EOF_CHECK \in flags) =>
        \A v \in ValueDocuments :
            IsValueThenRest(v) =>
                /\ result # nullptr => error.position = LeadingBlank + Len(v.doc)
                /\ stream.state # STREAM_STATE_ERROR => result # nullptr

\* a negative integer followed by a letter: three bytes consumed
C15_Witness ==
    /\ Done
    /\ JSON_DISABLE_EOF_CHECK \in flags
    /\ input = Bytes(<<"-", "1", "2", "x">>)
    /\ result = [t |-> "integer", negative |-> TRUE, digits |-> Bytes(<<"1", "2">>)]
    /\ error.position = 3
    /\ error.text = NoText

\* no input of this specification holds a NUL byte or a byte above 0x7F inside
\* a value: a returned value whose input holds one has left it out
RefPlainInput == \A i \in DOMAIN input : input[i] # 0 /\ input[i] < 128

\* C16: exact consumption required and a value returned: the whole input was
\* consumed.  The reported offset is the number of bytes the ByteSource
\* supplied before end of input, the source is exhausted, and every byte is
\* part of the value or insignificant white space (a NUL byte is neither).
C16_WholeInputConsumed ==
    (Done /\ JSON_DISABLE_EOF_CHECK \notin flags /\ result # nullptr) =>
        /\ error.position = Len(input)
        /\ data.pos = Len(input)
        /\ RefPlainInput

DecodeMessage == "unable to decode byte"

\* C17: a UTF-8 decode failure is reported with no textual context.  Whenever
\* the recorded message is 'unable to decode byte', whether the byte was met
\* at the start of a token or after some bytes of a token were scanned,
\* neither " near '...'" nor ' near end of file' is appended to it.
C17_DecodeFailureBare ==
    error.text.msg = DecodeMessage => error.text.ctx = "none"

\* C18: error context selection.  When the raw text of the current token is
\* empty at the report, ' near end of file' is appended if and only if the
\* stream has reached end of input; when it is not empty, " near '<prefix>'"
\* is appended, <prefix> being its first min(20, length) bytes.
C18_ContextSelection ==
    error.text # NoText =>
        IF error.text.raw = <<>> THEN
            /\ error.text.ctx = "eof" <=> error.text.at = STREAM_STATE_EOF
            /\ error.text.ctx # "near"
        ELSE
            /\ error.text.ctx = "near"
            /\ error.text.near =
                  SubSeq(error.text.raw, 1,
                         IF Len(error.text.raw) < 20 THEN Len(error.text.raw) ELSE 20)

\* a member or an element has just been parsed and its container waits
AfterItem == pc = "return" /\ stack # <<>> /\ drv.ret # nullptr

\* the input bytes a step consumed, the white space in front of them aside
StepBytes == RefSkipBlank(SubSeq(input, stream.position + 1, stream'.position))

\* the bracket that closes the container on top of the stack
RefClosing == IF Top(stack).kind = "array" THEN C("]") ELSE C("}")

RefValueTokens ==
    {TOKEN_STRING, TOKEN_INTEGER, TOKEN_REAL, TOKEN_TRUE, TOKEN_FALSE, TOKEN_NULL,
     C("{"), C("[")}

\* after a member or element: the container fails, or is closed by its own
\* bracket and returned, or goes on after a ','
SeparatorStep ==
    AfterItem =>
        \/ pc' = "return" /\ drv'.ret = nullptr
        \/ /\ pc' = "return"
           /\ drv'.ret # nullptr
           /\ drv'.ret.t = Top(stack).kind
           /\ StepBytes = <<RefClosing>>
        \/ /\ pc' = IF Top(stack).kind = "array" THEN "parse_value"
                    ELSE "parse_object_member"
           /\ StepBytes # <<>>
           /\ StepBytes[1] = C(",")
           /\ Len(stack') = Len(stack)

\* what follows a ',' (or opens the loop): a key in an object, the start of a
\* value in an array, or the container fails
ItemStep ==
    /\ (pc = "parse_object_member" /\ lex.token # TOKEN_STRING) =>
          (pc' = "return" /\ drv'.ret = nullptr)
    /\ (pc = "parse_value" /\ stack # <<>> /\ lex.token \notin RefValueTokens) =>
          (pc' = "return" /\ drv'.ret = nullptr)

\* a container that failed fails the decode
FailureStep ==
    (pc \in {"return", "json_loadb"} /\ drv.ret = nullptr) =>
        (drv'.ret = nullptr /\ result' \in {Pending, nullptr})

ClosedTrailingComma ==
    { Bytes(<<"[", "1", ",", "]">>),
      Bytes(<<"{", "\"", "a", "\"", ":", "1", ",", "}">>) }

OpenTrailingComma ==
    { Bytes(<<"[", "1", ",">>),
      Bytes(<<"{", "\"", "a", "\"", ":", "1", ",">>) }

----------------------------------------------------------------------------
(* the buffer of the decoded string *)

\* a string token whose raw text is still in lex.saved_text
StringScanned ==
    /\ drv.op = "scan"
    /\ lex.token = TOKEN_STRING
    /\ lex.value.kind = "string"

\* C21: the second pass of lex_scan_string reads the saved raw text up to its
\* closing quote and nothing after it, no escape form writes more bytes than
\* it occupies in the raw text, and the decoded bytes with their terminator
\* fit the saved_text.length + 1 bytes of the buffer: for a string token the
\* raw text ends with the closing quote and is at least as long as the value.
C21_DecodedStringBound ==
    /\ ~lex.overrun
    /\ abort # "undefined: read past the saved text"
    /\ StringScanned =>
        /\ Len(lex.saved_text) >= 2
        /\ CharToInt(lex.saved_text[Len(lex.saved_text)]) = CH_QUOTE
        /\ Len(lex.value.s) + 1 <= Len(lex.saved_text) + 1
        /\ Len(lex.value.s) <= Len(lex.saved_text) - 2

\* a six-byte escape decoded to four bytes, and a surrogate pair after a
\* short escape
C21_Witness ==
    /\ StringScanned
    /\ ~lex.overrun
    /\ \/ /\ input = Bytes(<<"\"", "\\", "u", "z", "z", "z", "z", "\"">>)
          /\ Len(lex.value.s) = 4
       \/ /\ input = Bytes(<<"\"", "\\", "n", "\\", "u", "D", "8", "3", "D",
                             "\\", "u", "D", "E", "0", "0", "\"">>)
          /\ Len(lex.value.s) = 5

----------------------------------------------------------------------------
(* the ByteSource after its end *)

\* C22: once the getter has returned EOF the stream does not call it again:
\* the getter returns EOF at most once in a decode, and the user callback of
\* the callback adapter returns 0 at most once.
C22_NoPullAfterEof ==
    /\ data.eofs <= 1
    /\ data.cb.zeros <= 1


----------------------------------------------------------------------------
(* termination *)

\* the decode under the scheduling of a sequential program: a step that can
\* be taken is taken
\* the inputs of the decodes followed to their end: the empty input, one
\* token, an opened container and one token, and the whole documents
LiveInputs ==
    {<<>>} \cup TokenChunks
        \cup {a \o b : a \in {<<C("[")>>, <<C("{")>>}, b \in TokenChunks}
        \cup Documents

LiveInit == InitWith(LiveInputs, SUBSET JsonFlags, "parse_json", {"buffer_get"})

SpecLive == LiveInit /\ [][Next]_vars /\ WF_vars(Next)

\* json_loadb has returned, or a failed assertion has ended the program
Terminated == pc \in {"done", "abort"}

\* what the stream can still hand out: the bytes not yet delivered, and the
\* step from Ok to the Eof or Error sentinel
Remaining ==
    2 * (Len(input) - stream.position)
        + (IF stream.state = STREAM_STATE_OK THEN 1 ELSE 0)

\* where the parser stands between two tokens
PcRank ==
    CASE pc = "parse_json" -> 7
      [] pc = "parse_value" -> 6
      [] pc \in {"parse_object", "parse_array"} -> 5
      [] pc = "parse_object_member" -> 4
      [] pc = "return" -> 2
      [] pc = "json_loadb" -> 1
      [] OTHER -> 0

\* a measure of the work left: the input left first, then the calls to
\* return from, then the place in the current call
Variant == 64 * Remaining + 8 * Len(stack) + PcRank

\* C23: the decode of a finite input ends under every combination of flags:
\* every step of parse_json, parse_value, parse_object and parse_array either
\* has lex_scan take a further byte from the stream or latch its Eof/Error
\* sentinel, or returns from a call or moves on within one, so a measure that
\* cannot go below zero decreases with every step, and json_loadb eventually
\* returns.
C23_Termination ==
    /\ [](Variant >= 0 /\ Len(stack) < 8)
    /\ [][Variant' < Variant]_vars
    /\ <>Terminated

\* a decode that ended after parse_array had iterated and the stream had
\* reached its Eof sentinel
C23_Witness ==
    /\ pc = "done"
    /\ stream.state = STREAM_STATE_EOF
    /\ result # nullptr
    /\ result.t = "array"
    /\ Len(result.elems) >= 2

----------------------------------------------------------------------------
(* every failure is diagnosed *)

\* the messages lex_scan and stream_get report themselves
LexerMessages ==
    { "unable to decode byte", "premature end of input", "unexpected newline",
      "control character", "invalid escape", "invalid Unicode",
      "\\u0000 is not allowed", "too big integer", "too big negative integer",
      "real number overflow" }

\* the messages of parse_json, parse_value, parse_object and parse_array
ParserMessages ==
    { "invalid token", "unexpected token", "'[' or '{' expected",
      "end of file expected", "string or '}' expected", "':' expected",
      "'}' expected", "']' expected", "duplicate object key" }

\* parse_value, parse_object, parse_array or parse_json is returning no value,
\* or json_loadb has returned none
ReturnsNoValue ==
    \/ pc \in {"return", "json_loadb"} /\ drv.ret = nullptr
    \/ pc = "done" /\ result = nullptr

\* documents whose first bad token the lexer rejects without a message: a
\* number with a leading zero, a number ending in '.', an unknown keyword, a
\* byte that starts no token
SilentInArray ==
    { Bytes(<<"[", "0", "1", "]">>), Bytes(<<"[", "1", ".", "]">>),
      Bytes(<<"[", "t", "r", "u", "]">>), Bytes(<<"[", "1", ",", ".", "]">>) }

SilentAtTop == { Bytes(<<"x">>), Bytes(<<".">>) }

\* C24: whenever the parser returns no value an error has been reported on the
\* way: the error holds one of the messages of the lexer or the parser.  When
\* the lexer rejected a token without a message of its own the single report
\* is the parser's: 'invalid token' from parse_value, or the structural
\* "'[' or '{' expected" of parse_json when the token is the first of the
\* input and JSON_DECODE_ANY is not set.
C24_EveryFailureDiagnosed ==
    /\ ReturnsNoValue =>
        /\ error.reports >= 1
        /\ error.text.msg \in LexerMessages \cup ParserMessages
    /\ ReturnsNoValue /\ input \in SilentInArray =>
        /\ error.reports = 1
        /\ error.text.msg = "invalid token"
    /\ ReturnsNoValue /\ input \in SilentAtTop =>
        /\ error.reports = 1
        /\ error.text.msg = IF JSON_DECODE_ANY \in flags THEN "invalid token"
                            ELSE "'[' or '{' expected"
    /\ pc = "done" /\ input \in SilentInArray \cup SilentAtTop => result = nullptr

\* the decode of [01] returned no value and 'invalid token' was reported
C24_Witness ==
    /\ pc = "done"
    /\ result = nullptr
    /\ input = Bytes(<<"[", "0", "1", "]">>)
    /\ error.reports = 1
    /\ error.text.msg = "invalid token"
============================================================================
